---- MODULE Spec2Model ----
(***************************************************************************)
(* A model of the Sira microkernel (layers/rust/kernel): the resource      *)
(* manager (resource.rs) and the message bus (message.rs).                 *)
(*                                                                         *)
(* Each component has its own specification; the variables of the other    *)
(* components stay at their initial value under it:                        *)
(*   SpecResource  ResourceManager: request_resources / release_resources  *)
(*   SpecBus       MessageBus: start/stop/publish/subscribe/request and    *)
(*                 the background processor and dispatch loops             *)
(*   SpecMatch     MessageBus::topic_matches as a pure function            *)
(***************************************************************************)
EXTENDS Integers, Sequences, FiniteSets, TLC

\* ------------------------------------------------------------------------
\* Bounds of the model
\* ------------------------------------------------------------------------
MaxQueue == 2
MaxAmount == 5
MaxAllocs == 2
MaxPublished == 2
MaxLoops == 3
MaxProcessors == 1
MaxCalls == 4
MaxNow == 182
MaxKernelCalls == 3

\* ------------------------------------------------------------------------
\* State
\* ------------------------------------------------------------------------
\* ResourceManager: the ledger, the usage map, the pending queue; the locks
\* held for ever by calls that hang; the next allocation id; the last call
\* and what it returned.
VARIABLES allocations, usage, allocation_queue, locks, nextAllocId, lastRes

\* The matcher's inputs and results (a result is <<>> until it is computed).
VARIABLES mPattern, mTopic, mResult, mResultStatic

resVars == <<allocations, usage, allocation_queue, locks, nextAllocId, lastRes>>

\* MessageBus: the running flag; the live processor tasks; the topic channels
\* (each with the messages sent on it so far); the dispatch loops (receivers)
\* attached to them; the subscription table; the history; the handler
\* invocations made so far; the number of publish calls; the last call and its
\* result; the one request() call of the model and its response channel.
VARIABLES running, processors, topics, dispatchLoops, subscriptions,
          message_history, invoked, published, lastBus, reqCall, rx

matchVars == <<mPattern, mTopic, mResult, mResultStatic>>

busVars == <<running, processors, topics, dispatchLoops, subscriptions,
             message_history, invoked, published, lastBus, reqCall, rx>>

\* ServiceRegistry: the service table; the indexes by type, capability and
\* tag; the clock (seconds); the number of calls made so far, and the last
\* call with what it returned.
VARIABLES services, services_by_type, services_by_capability, services_by_tag,
          now, lastSvc

svcVars == <<services, services_by_type, services_by_capability,
             services_by_tag, now, lastSvc>>

\* discover_services: the table it reads, the query, and what it returned
\* (<<>> until it is called).
VARIABLES dServices, dQuery, dResult

discVars == <<dServices, dQuery, dResult>>

\* PluginManager: the plugin table; the number of calls made so far and the
\* last call, with what it returned and the steps it took, in order (plugin
\* callbacks, table updates, calls into the resource manager).
VARIABLES plugins, lastPlug

plugVars == <<plugins, lastPlug>>

\* The register_service calls in progress: for each caller the metadata it
\* registers and how far the call has got. The request_resources calls in
\* progress: for each caller the request and how far the call has got.
VARIABLES registering, requesting

regVars == <<registering, requesting>>

\* Microkernel: the running flag; the service-expiry and the resource-usage
\* monitor tasks that are alive; the number of publish calls the bus had seen
\* when stop() last succeeded; the number of kernel calls made so far and the
\* last one, with what it returned.
VARIABLES kernel_running, sweepers, loggers, stopped_at, lastKernel

kernVars == <<kernel_running, sweepers, loggers, stopped_at, lastKernel>>

vars == <<resVars, matchVars, busVars, svcVars, discVars, plugVars, regVars,
          kernVars>>

\* What the operations of one component leave alone.
notPlugVars ==
  <<resVars, matchVars, busVars, svcVars, discVars, regVars, kernVars>>

notResVars ==
  <<matchVars, busVars, svcVars, discVars, plugVars, regVars, kernVars>>

notMatchVars ==
  <<resVars, busVars, svcVars, discVars, plugVars, regVars, kernVars>>

notBusVars ==
  <<resVars, matchVars, svcVars, discVars, plugVars, regVars, kernVars>>

\* What a registry operation leaves alone besides the bus.
notSvcBusVars == <<resVars, matchVars, discVars, plugVars, regVars, kernVars>>

notSvcVars ==
  <<resVars, matchVars, busVars, discVars, plugVars, regVars, kernVars>>

notDiscVars ==
  <<resVars, matchVars, busVars, svcVars, plugVars, regVars, kernVars>>

\* ------------------------------------------------------------------------
\* Generic helpers
\* ------------------------------------------------------------------------
Max(a, b) == IF a >= b THEN a ELSE b

None == "None"

\* ========================================================================
\* Resource manager (resource.rs)
\* ========================================================================

\* The resource types the model requests: one per strategy kind, and Custom,
\* which has no strategy.
ResourceTypes == {"Cpu", "Disk", "DatabaseConnections", "Custom"}

Requesters == {"svcA", "svcB"}

ResourcePriority == {"Low", "High"}

\* Option<u32>: <<>> is None, <<t>> is Some(t).
Timeouts == {<<>>}

\* ResourceLimits, as handed to ResourceManager::new.
limits ==
  [max_cpu |-> 4, max_memory |-> 4, max_disk |-> 1, max_network |-> 4,
   max_gpu |-> 1, max_db_connections |-> 1]

ResourceRequest ==
  [requester : Requesters, resource_type : ResourceTypes,
   amount : 0..MaxAmount, priority : ResourcePriority, timeout : Timeouts]

\* ResourceManager::new registers one strategy per type, none for Custom.
strategies(t) ==
  CASE t \in {"Cpu", "Memory", "Network"} -> "FairShare"
    [] t \in {"Disk", "Gpu"} -> "PriorityBased"
    [] t = "DatabaseConnections" -> "Pool"
    [] OTHER -> None

get_total_capacity(t) ==
  CASE t = "Cpu" -> limits.max_cpu
    [] t = "Memory" -> limits.max_memory
    [] t = "Disk" -> limits.max_disk
    [] t = "Network" -> limits.max_network
    [] t = "Gpu" -> limits.max_gpu
    [] t = "DatabaseConnections" -> limits.max_db_connections
    [] OTHER -> 0

get_max_capacity(t) == get_total_capacity(t)

\* validate_request with the per-request ceiling left out.
validate_request_NoCeiling(req) ==
  IF req.amount = 0 THEN "invalid" ELSE "ok"

\* validate_request: the amount is positive and at most the type's capacity.
validate_request(req) ==
  IF req.amount = 0 THEN "invalid"
  ELSE IF req.amount > get_max_capacity(req.resource_type) THEN "invalid"
  ELSE "ok"

\* check_availability with a missing usage entry read as nothing used.
check_availability_FromZero(u, t, amount) ==
  IF t \in DOMAIN u THEN u[t].used + amount <= u[t].total
  ELSE amount <= get_total_capacity(t)

\* check_availability: a type without a usage entry is never available.
check_availability(u, t, amount) ==
  IF t \in DOMAIN u THEN u[t].used + amount <= u[t].total ELSE FALSE

\* update_usage: creates the entry on first use, clamps used at 0.
update_usage(u, t, delta) ==
  LET cur == IF t \in DOMAIN u THEN u[t]
             ELSE [total |-> get_total_capacity(t), used |-> 0]
      new == [cur EXCEPT !.used = Max(cur.used + delta, 0)]
  IN [x \in DOMAIN u \cup {t} |-> IF x = t THEN new ELSE u[x]]

\* The manager's state as the operators below thread it: the ledger, the
\* usage map, the next allocation id, the locks that are held (by the running
\* call or by a call that hangs), and the outcome of the step.
\*   res = "ok"  : the step returned Ok (id = the allocation id)
\*   res = "err" : the step returned Err
\*   res = "hung": the step waits for a lock that is never released
MgrState(a, u, n, l) ==
  [allocs |-> a, usage |-> u, nextId |-> n, locks |-> l, res |-> "ok", id |-> 0]

\* expires_at of a new allocation: None without a timeout, else the time of
\* the allocation plus the timeout, in seconds (<<>> is None).
expires_at(timeout, t) ==
  IF timeout = <<>> THEN <<>> ELSE <<t + timeout[1]>>

\* allocate_resource: takes allocations.write() for the insert, then
\* update_usage takes usage.write(). tokio's RwLock is not re-entrant: a lock
\* the caller chain already holds is never obtained.
allocate_resource(st, req) ==
  IF "allocations" \in st.locks THEN [st EXCEPT !.res = "hung"]
  ELSE
    LET id == st.nextId
        alloc == [id |-> id, owner |-> req.requester,
                  resource_type |-> req.resource_type, amount |-> req.amount,
                  expires |-> expires_at(req.timeout, now)]
        st1 == [st EXCEPT !.allocs = st.allocs \cup {alloc}, !.nextId = id + 1]
    IN IF "usage" \in st.locks THEN [st1 EXCEPT !.res = "hung"]
       ELSE [st1 EXCEPT !.usage = update_usage(st.usage, req.resource_type, req.amount),
                        !.res = "ok", !.id = id]

\* FairShareStrategy::allocate.
FairShareStrategy(st, req) ==
  IF "usage" \in st.locks THEN [st EXCEPT !.res = "hung"]
  ELSE IF check_availability(st.usage, req.resource_type, req.amount)
       THEN allocate_resource(st, req)
       ELSE [st EXCEPT !.res = "err"]

\* PriorityBasedStrategy::allocate: the preemption branch is empty.
PriorityBasedStrategy(st, req) ==
  IF "usage" \in st.locks THEN [st EXCEPT !.res = "hung"]
  ELSE IF check_availability(st.usage, req.resource_type, req.amount)
       THEN allocate_resource(st, req)
       ELSE [st EXCEPT !.res = "err"]

\* PoolStrategy::allocate: keeps usage.read() while it calls allocate_resource.
PoolStrategy(st, req) ==
  IF "usage" \in st.locks THEN [st EXCEPT !.res = "hung"]
  ELSE
    LET t == req.resource_type
    IN IF t \in DOMAIN st.usage
          /\ st.usage[t].used + req.amount
               <= st.usage[t].total - (st.usage[t].total \div 10)
       THEN allocate_resource([st EXCEPT !.locks = st.locks \cup {"usage"}], req)
       ELSE [st EXCEPT !.res = "err"]

\* strategy.allocate(request, manager), for a type that has a strategy.
StrategyAllocate(st, req) ==
  CASE strategies(req.resource_type) = "FairShare" -> FairShareStrategy(st, req)
    [] strategies(req.resource_type) = "PriorityBased" -> PriorityBasedStrategy(st, req)
    [] OTHER -> PoolStrategy(st, req)

\* process_allocation_queue: one pass over the queue in order; scan.st is the
\* state after the entries before i, scan.kept the entries not fulfilled.
RECURSIVE ScanQueue(_, _, _, _)
ScanQueue(st, queue, i, kept) ==
  IF i > Len(queue) THEN [st |-> st, queue |-> kept]
  ELSE IF strategies(queue[i].resource_type) = None
       THEN ScanQueue(st, queue, i + 1, Append(kept, queue[i]))
  ELSE
    LET r == StrategyAllocate([st EXCEPT !.res = "ok"], queue[i])
    IN IF r.res = "hung" THEN [st |-> r, queue |-> queue]
       ELSE IF r.res = "ok"
            THEN ScanQueue(r, queue, i + 1, kept)
            ELSE ScanQueue([r EXCEPT !.res = "ok"], queue, i + 1,
                           Append(kept, queue[i]))

process_allocation_queue(st, queue) ==
  IF "allocation_queue" \in st.locks
  THEN [st |-> [st EXCEPT !.res = "hung"], queue |-> queue]
  ELSE ScanQueue([st EXCEPT !.locks = st.locks \cup {"allocation_queue"}],
                 queue, 1, <<>>)

\* The push of a refused request, dropped.
Enqueue_Lost(queue, req) == queue

\* allocation_queue.write().push(request).
Enqueue(queue, req) == Append(queue, req)

\* get_allocations_for_owner.
get_allocations_for_owner(owner) == {a \in allocations : a.owner = owner}

ResInit ==
  /\ allocations = {}
  /\ usage = <<>>
  /\ allocation_queue = <<>>
  /\ locks = {}
  /\ nextAllocId = 1
  /\ lastRes = [op |-> "none"]

\* The locks a call leaves held: those a hung call holds for ever.
HeldAfter(before, st) == IF st.res = "hung" THEN st.locks ELSE before

\* request_resources(request).
request_resources(req) ==
  LET st0 == MgrState(allocations, usage, nextAllocId, locks)
  IN
  IF validate_request(req) # "ok"
  THEN /\ lastRes' = [op |-> "request", req |-> req, result |-> "invalid", id |-> 0]
       /\ UNCHANGED <<allocations, usage, allocation_queue, locks, nextAllocId>>
  ELSE IF strategies(req.resource_type) = None
  THEN /\ lastRes' = [op |-> "request", req |-> req, result |-> "no_strategy", id |-> 0]
       /\ UNCHANGED <<allocations, usage, allocation_queue, locks, nextAllocId>>
  ELSE
    LET r == StrategyAllocate(st0, req)
        queueHung == r.res = "err" /\ "allocation_queue" \in locks
    IN /\ allocations' = r.allocs
       /\ usage' = r.usage
       /\ nextAllocId' = r.nextId
       /\ locks' = HeldAfter(locks, r)
       /\ allocation_queue' =
            IF r.res = "err" /\ ~queueHung
            THEN Enqueue(allocation_queue, req) ELSE allocation_queue
       /\ lastRes' =
            [op |-> "request", req |-> req,
             result |-> IF r.res = "ok" THEN "ok"
                        ELSE IF r.res = "hung" \/ queueHung THEN "hung"
                        ELSE "queued",
             id |-> r.id]

RequestResources ==
  \E r \in ResourceRequest :
    /\ Len(allocation_queue) < MaxQueue
    /\ nextAllocId <= MaxAllocs
    /\ request_resources(r)
    /\ UNCHANGED notResVars

\* release_resources that takes an id it does not find for released: it
\* re-scans the queue and returns Ok.
release_resources_IgnoresMissing(id) ==
  LET p == process_allocation_queue(
             MgrState(allocations, usage, nextAllocId, locks \cup {"allocations"}),
             allocation_queue)
  IN /\ allocations' = {a \in p.st.allocs : a.id # id}
     /\ usage' = p.st.usage
     /\ nextAllocId' = p.st.nextId
     /\ locks' = HeldAfter(locks, p.st)
     /\ allocation_queue' = p.queue
     /\ lastRes' = [op |-> "release", id |-> id,
                    result |-> IF p.st.res = "hung" THEN "hung" ELSE "ok"]

\* release_resources(allocation_id): keeps allocations.write() until it returns.
release_resources(id) ==
  LET found == {a \in allocations : a.id = id}
  IN
  IF "allocations" \in locks
  THEN /\ lastRes' = [op |-> "release", id |-> id, result |-> "hung"]
       /\ UNCHANGED <<allocations, usage, allocation_queue, locks, nextAllocId>>
  ELSE IF found = {}
  THEN /\ lastRes' = [op |-> "release", id |-> id, result |-> "not_found"]
       /\ UNCHANGED <<allocations, usage, allocation_queue, locks, nextAllocId>>
  ELSE
    LET a == CHOOSE x \in found : TRUE
        st0 == MgrState(allocations \ {a}, usage, nextAllocId,
                        locks \cup {"allocations"})
        st1 == IF "usage" \in locks THEN [st0 EXCEPT !.res = "hung"]
               ELSE [st0 EXCEPT !.usage = update_usage(usage, a.resource_type, 0 - a.amount)]
        p == IF st1.res = "hung" THEN [st |-> st1, queue |-> allocation_queue]
             ELSE process_allocation_queue(st1, allocation_queue)
    IN /\ allocations' = p.st.allocs
       /\ usage' = p.st.usage
       /\ nextAllocId' = p.st.nextId
       /\ locks' = HeldAfter(locks, p.st)
       /\ allocation_queue' = p.queue
       /\ lastRes' = [op |-> "release", id |-> id,
                      result |-> IF p.st.res = "hung" THEN "hung" ELSE "ok"]

ReleaseResources ==
  \E id \in 1..MaxAllocs :
    /\ release_resources(id)
    /\ UNCHANGED notResVars

ResNext == RequestResources \/ ReleaseResources

\* The timeouts, in seconds, of the requests that carry one.
RequestTimeouts == {<<30>>}

\* request_resources with a request that carries a timeout.
RequestTimed ==
  \E r \in ResourceRequest, t \in RequestTimeouts :
    /\ Len(allocation_queue) < MaxQueue
    /\ nextAllocId <= MaxAllocs
    /\ request_resources([r EXCEPT !.timeout = t])
    /\ UNCHANGED notResVars

\* ========================================================================
\* Topic matching (message.rs): strings are sequences of characters
\* ========================================================================
Star == "*"

starts_with(s, c) == Len(s) > 0 /\ s[1] = c

ends_with(s, c) == Len(s) > 0 /\ s[Len(s)] = c

contains(s, c) == \E i \in 1..Len(s) : s[i] = c

\* str::split(c): the pieces between the occurrences of c; n occurrences give
\* n + 1 pieces, empty ones included.
RECURSIVE split(_, _)
split(s, c) ==
  IF ~contains(s, c) THEN <<s>>
  ELSE LET i == CHOOSE k \in 1..Len(s) :
                  s[k] = c /\ \A j \in 1..(k - 1) : s[j] # c
       IN <<SubSeq(s, 1, i - 1)>> \o split(SubSeq(s, i + 1, Len(s)), c)

\* Whether part occurs in s at the 0-based offset q.
OccursAt(s, part, q) ==
  /\ q + Len(part) <= Len(s)
  /\ SubSeq(s, q + 1, q + Len(part)) = part

\* str::find(part) on s: the 0-based offset of the first occurrence, or -1
\* (None). The empty string is found at offset 0.
find(s, part) ==
  IF \E q \in 0..Len(s) : OccursAt(s, part, q)
  THEN CHOOSE q \in 0..Len(s) :
         OccursAt(s, part, q) /\ \A r \in 0..(q - 1) : ~OccursAt(s, part, r)
  ELSE -1

\* The for loop of topic_matches over pattern_parts, from part i (1-based
\* here, i - 1 in the code) with topic_pos: a part that is not found only
\* ends the match when it is the first part of a pattern that does not start
\* with '*' or the last part of one that does not end with '*'.
RECURSIVE MatchParts(_, _, _, _, _)
MatchParts(pattern, parts, topic, i, topic_pos) ==
  IF i > Len(parts) THEN TRUE
  ELSE
    LET pos == find(SubSeq(topic, topic_pos + 1, Len(topic)), parts[i])
    IN IF pos # -1
       THEN MatchParts(pattern, parts, topic, i + 1, topic_pos + pos + Len(parts[i]))
       ELSE IF i = 1 /\ ~starts_with(pattern, Star) THEN FALSE
       ELSE IF i = Len(parts) /\ ~ends_with(pattern, Star) THEN FALSE
       ELSE MatchParts(pattern, parts, topic, i + 1, topic_pos)

\* MessageBus::topic_matches.
topic_matches(pattern, topic) ==
  IF pattern = topic THEN TRUE
  ELSE IF contains(pattern, Star)
       THEN MatchParts(pattern, split(pattern, Star), topic, 1, 0)
       ELSE FALSE

\* MessageBus::topic_matches_static: the same body, for the dispatch loops.
topic_matches_static(pattern, topic) ==
  IF pattern = topic THEN TRUE
  ELSE IF contains(pattern, Star)
       THEN MatchParts(pattern, split(pattern, Star), topic, 1, 0)
       ELSE FALSE

\* ---- the matcher applied to bounded inputs ------------------------------
MaxLen == 3

SeqsUpTo(S, n) == UNION {[1..k -> S] : k \in 0..n}

PatternChars == {"a", "b", Star}

TopicChars == {"a", "b"}

\* The patterns and topics of the examples of the documentation.
ExamplePattern == <<"a", ".", Star, ".", "c">>

ExampleTopics ==
  {<<"a", ".", "b", ".", "c">>, <<"a", ".", "x", ".", "c">>,
   <<"a", ".", "b", ".", "b">>, <<"a", ".", "c">>,
   <<"x", "a", ".", "b", ".", "c">>}

MatchInit ==
  /\ \/ /\ mPattern \in SeqsUpTo(PatternChars, MaxLen)
        /\ mTopic \in SeqsUpTo(TopicChars, MaxLen)
     \/ /\ mPattern = ExamplePattern
        /\ mTopic \in ExampleTopics
  /\ mResult = <<>>
  /\ mResultStatic = <<>>

ApplyTopicMatches ==
  /\ mResult = <<>>
  /\ mResult' = <<topic_matches(mPattern, mTopic)>>
  /\ UNCHANGED <<mPattern, mTopic, mResultStatic>>
  /\ UNCHANGED notMatchVars

ApplyTopicMatchesStatic ==
  /\ mResultStatic = <<>>
  /\ mResultStatic' = <<topic_matches_static(mPattern, mTopic)>>
  /\ UNCHANGED <<mPattern, mTopic, mResult>>
  /\ UNCHANGED notMatchVars

MatchNext == ApplyTopicMatches \/ ApplyTopicMatchesStatic

\* ========================================================================
\* Message bus (message.rs)
\* ========================================================================
\* Message ids are strings (sequences): given by the caller, or empty for
\* publish to fill in.
CallerIds == {<<"1">>}

EmptyId == <<>>

\* Uuid::new_v4() of the n-th publish call: an id no caller uses.
Uuid(n) == <<"uuid", n>>

\* The topic and the subscriber id request() derives from the request's id.
ResponseTopic(id) == <<"r", ".">> \o id

RequestSubId(id) == <<"request_">> \o id

UserSubIds == {<<"s1">>}

ResponseTopics == {ResponseTopic(c) : c \in CallerIds}

\* SubscriptionOptions.filter: None, or a predicate on the message; the model's
\* predicate accepts the messages that carry a ttl.
FilterAccepts(f, m) == f = None \/ m.ttl > 0

\* What a subscriber may pass to subscribe: an exact topic, a wildcard, an
\* exact topic with a filter.
SubscribeInputs ==
  {[topics |-> << <<"a">> >>, filter |-> None],
   [topics |-> << <<Star>> >>, filter |-> None],
   [topics |-> << <<"a">> >>, filter |-> "has_ttl"]}

\* A message's timestamp as the caller sets it: MIN_UTC (not provided), or
\* <<ms>>, a time that lies ms milliseconds before the publish call.
MinUtc == <<>>

\* The (ttl, timestamp) pairs of the published messages: no ttl and an old
\* timestamp; a ttl of 5 s with 5.999 s and with 6 s of age.
TtlCases ==
  {[ttl |-> 0, timestamp |-> <<6000>>], [ttl |-> 5, timestamp |-> <<5999>>],
   [ttl |-> 5, timestamp |-> <<6000>>]}

max_history_size == 1000

\* Duration::num_seconds of now - timestamp: whole seconds, toward zero.
num_seconds(ms) == IF ms >= 0 THEN ms \div 1000 ELSE 0 - ((0 - ms) \div 1000)

\* The TTL check of publish without the ttl > 0 guard.
IsExpired_NoGuard(ttl, age_ms) == num_seconds(age_ms) > ttl

\* The TTL check of publish.
IsExpired(ttl, age_ms) == ttl > 0 /\ num_seconds(age_ms) > ttl

\* add_to_history: push_back, then pop_front when over the bound.
\* add_to_history that refuses the new message when the history is full.
add_to_history_KeepsOldest(history, m) ==
  IF Len(history) >= max_history_size THEN history ELSE Append(history, m)

add_to_history(history, m) ==
  LET h == Append(history, m)
  IN IF Len(h) > max_history_size THEN Tail(h) ELSE h

\* get_or_create_topic: a new channel has no message and no receiver.
get_or_create_topic(tp, topic) ==
  IF topic \in DOMAIN tp THEN tp ELSE tp @@ (topic :> <<>>)

\* broadcast::Sender::receiver_count: the dispatch loops attached to a topic.
LoopsOn(loops, topic) == {k \in DOMAIN loops : k.topic = topic}

RECURSIVE SumCounts(_, _)
SumCounts(f, keys) ==
  IF keys = {} THEN 0
  ELSE LET k == CHOOSE x \in keys : TRUE IN f[k] + SumCounts(f, keys \ {k})

receiver_count(loops, topic) == SumCounts(loops, LoopsOn(loops, topic))

\* One more / one fewer element k in the bag b (a function to counts).
BagAdd(b, k) ==
  IF k \in DOMAIN b THEN [b EXCEPT ![k] = @ + 1] ELSE b @@ (k :> 1)

BagRemove(b, k) ==
  IF b[k] > 1 THEN [b EXCEPT ![k] = @ - 1]
  ELSE [x \in DOMAIN b \ {k} |-> b[x]]

\* The first lines of publish: the id and the timestamp are filled in when
\* they are not provided (age_ms: how long before the call the timestamp lies).
Stamp(message, n) ==
  [id |-> IF message.id = EmptyId THEN Uuid(n) ELSE message.id,
   topic |-> message.topic,
   ttl |-> message.ttl,
   age_ms |-> IF message.timestamp = MinUtc THEN 0 ELSE message.timestamp[1],
   payload |-> IF "payload" \in DOMAIN message THEN message.payload ELSE None,
   recipients |->
     IF "recipients" \in DOMAIN message THEN message.recipients ELSE <<>>,
   seq |-> n]

\* broadcast::Sender::send: an error when the channel has no receiver,
\* otherwise the message is queued for every receiver.
send(log, m, receivers) ==
  IF receivers = 0 THEN [result |-> "err_send", log |-> log]
  ELSE [result |-> "ok", log |-> Append(log, m)]

\* publish(message), as the n-th publish call: the result, and the history
\* and the channels after it.
publish_on(history, channels, loops, message, n) ==
  LET m == Stamp(message, n)
  IN IF IsExpired(m.ttl, m.age_ms)
     THEN [result |-> "ok", msg |-> m, history |-> history, topics |-> channels]
     ELSE
       LET tp == get_or_create_topic(channels, m.topic)
           sent == send(tp[m.topic], m, receiver_count(loops, m.topic))
       IN [result |-> sent.result, msg |-> m,
           history |-> add_to_history(history, m),
           topics |-> [tp EXCEPT ![m.topic] = sent.log]]

publish(message, n) ==
  publish_on(message_history, topics, dispatchLoops, message, n)

\* subscribe: stores the subscription (replacing one with the same id) and
\* creates a channel for each of its topics.
RECURSIVE CreateTopics(_, _, _)
CreateTopics(tp, list, i) ==
  IF i > Len(list) THEN tp
  ELSE CreateTopics(get_or_create_topic(tp, list[i]), list, i + 1)

subscribe(subs, id, list, filter, handler) ==
  [x \in DOMAIN subs \cup {id} |->
     IF x = id THEN [topics |-> list, filter |-> filter, handler |-> handler]
     ELSE subs[x]]

\* unsubscribe: removes the subscription; an error when there is none.
unsubscribe(subs, id) ==
  IF id \in DOMAIN subs
  THEN [result |-> "ok", subs |-> [x \in DOMAIN subs \ {id} |-> subs[x]]]
  ELSE [result |-> "err_not_found", subs |-> subs]

\* get_subscribers(topic).
get_subscribers(subs, topic) ==
  {id \in DOMAIN subs :
     \E i \in 1..Len(subs[id].topics) : topic_matches(subs[id].topics[i], topic)}

\* The filter of a dispatch loop: the subscriptions a received message goes to.
matching_subs(subs, m) ==
  {id \in DOMAIN subs :
     /\ \E i \in 1..Len(subs[id].topics) :
          topic_matches_static(subs[id].topics[i], m.topic)
     /\ FilterAccepts(subs[id].filter, m)}

BusInit ==
  /\ running = FALSE
  /\ processors = 0
  /\ topics = <<>>
  /\ dispatchLoops = <<>>
  /\ subscriptions = <<>>
  /\ message_history = <<>>
  /\ invoked = <<>>
  /\ published = 0
  /\ lastBus = [op |-> "none", seq |-> 0]
  /\ reqCall = [pc |-> "idle"]
  /\ rx = <<>>

\* start(): fails on a running bus, else sets the flag and spawns a processor.
BusStart ==
  /\ processors < MaxProcessors
  /\ IF running
     THEN UNCHANGED <<running, processors>>
     ELSE /\ running' = TRUE
          /\ processors' = processors + 1
  /\ UNCHANGED <<topics, dispatchLoops, subscriptions, message_history,
                 invoked, published, lastBus, reqCall, rx>>
  /\ UNCHANGED notBusVars

\* stop(): fails on a bus that is not running, else clears the flag.
BusStop ==
  /\ IF ~running THEN UNCHANGED running ELSE running' = FALSE
  /\ UNCHANGED <<processors, topics, dispatchLoops, subscriptions,
                 message_history, invoked, published, lastBus, reqCall, rx>>
  /\ UNCHANGED notBusVars

\* publish(message) called by a client, the message taken from `ids`,
\* `names` and `cases`. lastBus keeps the call and its result.
PublishOf(ids, names, cases) ==
  \E id \in ids, topic \in names, c \in cases :
    /\ published < MaxPublished
    /\ LET p == publish([id |-> id, topic |-> topic, ttl |-> c.ttl,
                         timestamp |-> c.timestamp], published + 1)
       IN /\ message_history' = p.history
          /\ topics' = p.topics
          /\ lastBus' = [op |-> "publish", seq |-> published + 1,
                         msg |-> p.msg, result |-> p.result]
    /\ published' = published + 1
    /\ UNCHANGED <<running, processors, dispatchLoops, subscriptions,
                   invoked, reqCall, rx>>
    /\ UNCHANGED notBusVars

\* A publisher that leaves the id to publish: every (ttl, timestamp) case on
\* topic "a", and a message without ttl or timestamp on topic "b".
Publish ==
  \/ PublishOf({EmptyId}, {<<"a">>}, TtlCases)
  \/ PublishOf({EmptyId}, {<<"b">>}, {[ttl |-> 0, timestamp |-> MinUtc]})

\* A responder's publish on a response topic: a message with no ttl whose id
\* is the request's id, or a fresh one.
PublishResponse ==
  PublishOf(CallerIds \cup {EmptyId}, ResponseTopics,
            {[ttl |-> 0, timestamp |-> MinUtc]})

\* subscribe(id, topics, handler, options) called by a client.
SubscribeOf(ids, inputs, handler) ==
  \E id \in ids, i \in inputs :
    /\ subscriptions' = subscribe(subscriptions, id, i.topics, i.filter, handler)
    /\ topics' = CreateTopics(topics, i.topics, 1)
    /\ UNCHANGED <<running, processors, dispatchLoops, message_history,
                   invoked, published, lastBus, reqCall, rx>>
    /\ UNCHANGED notBusVars

Subscribe == SubscribeOf(UserSubIds, SubscribeInputs, "user")

\* The subscriber of the request's topic.
SubscribeService ==
  SubscribeOf(UserSubIds, {[topics |-> << <<"a">> >>, filter |-> None]}, "user")

\* unsubscribe(id) called by a client.
UnsubscribeOf(ids) ==
  \E id \in ids :
    /\ subscriptions' = unsubscribe(subscriptions, id).subs
    /\ UNCHANGED <<running, processors, topics, dispatchLoops,
                   message_history, invoked, published, lastBus, reqCall, rx>>
    /\ UNCHANGED notBusVars

Unsubscribe == UnsubscribeOf(UserSubIds)

\* unsubscribe called by a client with the id of a throwaway subscription.
UnsubscribeRequest == UnsubscribeOf({RequestSubId(c) : c \in CallerIds})

\* One iteration of the processor task: it ends when the flag is cleared;
\* otherwise it attaches a new dispatch loop to every topic that has a
\* channel, whether or not the topic already has one, and sleeps 100 ms.
RECURSIVE AttachLoops(_, _)
AttachLoops(loops, names) ==
  IF names = {} THEN loops
  ELSE LET t == CHOOSE x \in names : TRUE
       IN AttachLoops(BagAdd(loops, [topic |-> t, next |-> Len(topics[t]) + 1]),
                      names \ {t})

ProcessorTick ==
  /\ processors > 0
  /\ IF ~running
     THEN /\ processors' = processors - 1
          /\ UNCHANGED dispatchLoops
     ELSE /\ SumCounts(dispatchLoops, DOMAIN dispatchLoops)
               + Cardinality(DOMAIN topics) <= MaxLoops
          /\ dispatchLoops' = AttachLoops(dispatchLoops, DOMAIN topics)
          /\ UNCHANGED processors
  /\ UNCHANGED <<running, topics, subscriptions, message_history, invoked,
                 published, lastBus, reqCall, rx>>
  /\ UNCHANGED notBusVars

\* One iteration of a dispatch loop: it receives its next message, reads the
\* subscription table and spawns one handler invocation per matching
\* subscription. A user's handler only counts the invocation; the handler of
\* request() forwards the message into the call's response channel (capacity
\* 1: an invocation that finds it full, or finds the receiver gone, hands
\* nothing over).
\* Every invocation is a task of its own; what the handler returns (Ok or
\* Err) is only logged.
handle_message(handler) == IF handler = "failing" THEN "err" ELSE "ok"

RECURSIVE InvokeEach(_, _, _, _)
InvokeEach(inv, subs, targets, m) ==
  IF targets = {} THEN inv
  ELSE LET id == CHOOSE x \in targets : TRUE
       IN InvokeEach(BagAdd(inv, [sub |-> id, msg |-> m,
                                  result |-> handle_message(subs[id].handler)]),
                     subs, targets \ {id}, m)

\* A dispatch that gives up the message at the first handler error.
Invoke_StopAtError(inv, subs, targets, m) ==
  LET failing == {id \in targets : handle_message(subs[id].handler) = "err"}
  IN InvokeEach(inv, subs, IF failing = {} THEN targets ELSE failing, m)

Invoke(inv, subs, targets, m) == InvokeEach(inv, subs, targets, m)

Dispatch ==
  \E k \in DOMAIN dispatchLoops :
    /\ k.next <= Len(topics[k.topic])
    /\ LET m == topics[k.topic][k.next]
           targets == matching_subs(subscriptions, m)
           forwards == \E id \in targets : subscriptions[id].handler = "request"
       IN /\ invoked' = Invoke(invoked, subscriptions, targets, m)
          /\ rx' = IF forwards /\ reqCall.pc \in {"subscribed", "waiting"}
                      /\ Len(rx) < 1
                   THEN Append(rx, m) ELSE rx
    /\ dispatchLoops' =
         BagAdd(BagRemove(dispatchLoops, k), [k EXCEPT !.next = @ + 1])
    /\ UNCHANGED <<running, processors, topics, subscriptions,
                   message_history, published, lastBus, reqCall>>
    /\ UNCHANGED notBusVars

\* request(request, timeout), first step: the throwaway subscription
\* request_<id> on the topic response.<id>.
RequestSubscribe ==
  \E id \in CallerIds :
    /\ reqCall.pc = "idle"
    /\ subscriptions' = subscribe(subscriptions, RequestSubId(id),
                                  <<ResponseTopic(id)>>, None, "request")
    /\ topics' = CreateTopics(topics, <<ResponseTopic(id)>>, 1)
    /\ reqCall' = [pc |-> "subscribed", id |-> id]
    /\ UNCHANGED <<running, processors, dispatchLoops, message_history,
                   invoked, published, lastBus, rx>>
    /\ UNCHANGED notBusVars

\* What request() leaves behind when it returns on path `path` with `result`.
Returned(call, path, result, subs) ==
  [pc |-> "done", id |-> call.id, path |-> path, result |-> result,
   leaked |-> RequestSubId(call.id) \in DOMAIN subs]

\* request, second step: self.publish(request).await?  An error of publish
\* is returned at once.
RequestPublish ==
  /\ reqCall.pc = "subscribed"
  /\ published < MaxPublished
  /\ LET p == publish([id |-> reqCall.id, topic |-> <<"a">>, ttl |-> 0,
                       timestamp |-> MinUtc], published + 1)
     IN /\ message_history' = p.history
        /\ topics' = p.topics
        /\ reqCall' = IF p.result = "ok"
                      THEN [reqCall EXCEPT !.pc = "waiting"]
                      ELSE Returned(reqCall, "publish_error", p.result, subscriptions)
  /\ published' = published + 1
  /\ UNCHANGED <<running, processors, dispatchLoops, subscriptions, invoked,
                 lastBus, rx>>
  /\ UNCHANGED notBusVars

\* request, Ok(Some(response)): unsubscribes request_<response.id>.
RequestReceive ==
  /\ reqCall.pc = "waiting"
  /\ rx # <<>>
  /\ LET u == unsubscribe(subscriptions, RequestSubId(Head(rx).id))
     IN /\ subscriptions' = u.subs
        /\ reqCall' = Returned(reqCall, "response",
                               IF u.result = "ok" THEN "ok" ELSE u.result, u.subs)
  /\ rx' = <<>>
  /\ UNCHANGED <<running, processors, topics, dispatchLoops, message_history,
                 invoked, published, lastBus>>
  /\ UNCHANGED notBusVars

\* request, Err(_): the timeout elapsed with no response in the channel.
RequestTimeout ==
  /\ reqCall.pc = "waiting"
  /\ rx = <<>>
  /\ LET u == unsubscribe(subscriptions, RequestSubId(reqCall.id))
     IN /\ subscriptions' = u.subs
        /\ reqCall' = Returned(reqCall, "timeout",
                               IF u.result = "ok" THEN "err_timeout" ELSE u.result,
                               u.subs)
  /\ UNCHANGED <<running, processors, topics, dispatchLoops, message_history,
                 invoked, published, lastBus, rx>>
  /\ UNCHANGED notBusVars

\* request, Ok(None): every sender of the response channel is gone, which
\* takes the subscription holding the handler to have been removed.
RequestClosed ==
  /\ reqCall.pc = "waiting"
  /\ rx = <<>>
  /\ RequestSubId(reqCall.id) \notin DOMAIN subscriptions
  /\ LET u == unsubscribe(subscriptions, RequestSubId(reqCall.id))
     IN /\ subscriptions' = u.subs
        /\ reqCall' = Returned(reqCall, "closed",
                               IF u.result = "ok" THEN "err_closed" ELSE u.result,
                               u.subs)
  /\ UNCHANGED <<running, processors, topics, dispatchLoops, message_history,
                 invoked, published, lastBus, rx>>
  /\ UNCHANGED notBusVars

\* The bus with publishers and subscribers.
BusNext ==
  \/ BusStart
  \/ BusStop
  \/ Publish
  \/ Subscribe
  \/ Unsubscribe
  \/ ProcessorTick
  \/ Dispatch

\* The bus with one caller of request(), a service subscribed to the
\* request's topic and a responder.
RequestNext ==
  \/ BusStart
  \/ SubscribeService
  \/ UnsubscribeRequest
  \/ PublishResponse
  \/ ProcessorTick
  \/ Dispatch
  \/ RequestSubscribe
  \/ RequestPublish
  \/ RequestReceive
  \/ RequestTimeout
  \/ RequestClosed

\* A subscriber whose handler returns an error for every message, next to a
\* subscriber whose handler succeeds (on the topic, or on every topic).
FailingSubIds == {<<"f1">>}

SubscribeFailing ==
  SubscribeOf(FailingSubIds, {[topics |-> << <<"a">> >>, filter |-> None]},
              "failing")

PublishPlain ==
  PublishOf({EmptyId}, {<<"a">>, <<"b">>}, {[ttl |-> 0, timestamp |-> MinUtc]})

\* send_to(message, recipients): sets the message's recipients and publishes.
send_to(message, recipients, n) ==
  publish([id |-> message.id, topic |-> message.topic, ttl |-> message.ttl,
           timestamp |-> message.timestamp, recipients |-> recipients], n)

\* The second subscriber of topic "a".
OtherSubIds == {<<"s2">>}

SubscribeOther ==
  SubscribeOf(OtherSubIds, {[topics |-> << <<"a">> >>, filter |-> None]}, "user")

\* send_to called by a client: to nobody in particular, to one subscriber,
\* to an id that subscribes to nothing.
RecipientLists == {<<>>, << <<"s1">> >>, << <<"nobody">> >>}

SendTo ==
  \E recipients \in RecipientLists :
    /\ published < MaxPublished
    /\ LET p == send_to([id |-> EmptyId, topic |-> <<"a">>, ttl |-> 0,
                         timestamp |-> MinUtc], recipients, published + 1)
       IN /\ message_history' = p.history
          /\ topics' = p.topics
          /\ lastBus' = [op |-> "send_to", seq |-> published + 1,
                         msg |-> p.msg, result |-> p.result]
    /\ published' = published + 1
    /\ UNCHANGED <<running, processors, dispatchLoops, subscriptions,
                   invoked, reqCall, rx>>
    /\ UNCHANGED notBusVars

\* start() and stop() as functions of the running flag: the result and the
\* flag after the call.
start(flag) ==
  IF flag THEN [result |-> "err_already_running", running |-> flag]
  ELSE [result |-> "ok", running |-> TRUE]

stop(flag) ==
  IF ~flag THEN [result |-> "err_not_running", running |-> flag]
  ELSE [result |-> "ok", running |-> FALSE]

\* start() and stop() called by a client who looks at the result (was: the
\* flag the call found). A successful start spawns a processor task.
StartBus ==
  /\ running \/ processors < MaxProcessors
  /\ running' = start(running).running
  /\ processors' = IF start(running).result = "ok" THEN processors + 1
                   ELSE processors
  /\ lastBus' = [op |-> "start", seq |-> lastBus.seq, was |-> running,
                 result |-> start(running).result]
  /\ UNCHANGED <<topics, dispatchLoops, subscriptions, message_history,
                 invoked, published, reqCall, rx>>
  /\ UNCHANGED notBusVars

StopBus ==
  /\ running' = stop(running).running
  /\ lastBus' = [op |-> "stop", seq |-> lastBus.seq, was |-> running,
                 result |-> stop(running).result]
  /\ UNCHANGED <<processors, topics, dispatchLoops, subscriptions,
                 message_history, invoked, published, reqCall, rx>>
  /\ UNCHANGED notBusVars

\* get_history(limit): history.iter().rev().take(limit).
get_history(history, limit) ==
  [i \in 1..(IF limit < Len(history) THEN limit ELSE Len(history)) |->
     history[Len(history) - i + 1]]

HistoryLimits == {0, 1, 2, max_history_size, max_history_size + 1}

GetHistory ==
  \E limit \in HistoryLimits :
    /\ lastBus' = [op |-> "get_history", seq |-> lastBus.seq, limit |-> limit,
                   result |-> get_history(message_history, limit)]
    /\ UNCHANGED <<running, processors, topics, dispatchLoops, subscriptions,
                   message_history, invoked, published, reqCall, rx>>
    /\ UNCHANGED notBusVars

\* A publisher of messages without ttl on two topics, on a bus that has
\* recorded few messages or is about to fill its history.
RecordMessage ==
  \E topic \in {<<"a">>, <<"b">>} :
    /\ \/ published < MaxPublished
       \/ /\ published >= max_history_size - 1
          /\ published < max_history_size + MaxPublished
    /\ LET p == publish([id |-> EmptyId, topic |-> topic, ttl |-> 0,
                         timestamp |-> MinUtc], published + 1)
       IN /\ message_history' = p.history
          /\ topics' = p.topics
          /\ lastBus' = [op |-> "publish", seq |-> published + 1,
                         msg |-> p.msg, result |-> p.result]
    /\ published' = published + 1
    /\ UNCHANGED <<running, processors, dispatchLoops, subscriptions,
                   invoked, reqCall, rx>>
    /\ UNCHANGED notBusVars

\* The bus after n publish calls of messages without ttl on topic "a", made
\* before start(): every one was recorded, none was sent.
AfterPublishes(n) ==
  /\ running = FALSE
  /\ processors = 0
  /\ topics = IF n = 0 THEN <<>> ELSE (<<"a">> :> <<>>)
  /\ dispatchLoops = <<>>
  /\ subscriptions = <<>>
  /\ message_history =
       [i \in 1..n |-> Stamp([id |-> EmptyId, topic |-> <<"a">>, ttl |-> 0,
                              timestamp |-> MinUtc], i)]
  /\ invoked = <<>>
  /\ published = n
  /\ lastBus = [op |-> "none", seq |-> 0]
  /\ reqCall = [pc |-> "idle"]
  /\ rx = <<>>

HistoryNext ==
  \/ RecordMessage
  \/ GetHistory

\* The bus as a client sees it who starts, stops, subscribes, publishes and
\* sends, and looks at what each call returns.
ErrorsNext ==
  \/ StartBus
  \/ StopBus
  \/ Subscribe
  \/ PublishPlain
  \/ SendTo
  \/ ProcessorTick
  \/ Dispatch

\* The bus with two subscribers of one topic and a sender that addresses
\* its messages.
SendToNext ==
  \/ BusStart
  \/ Subscribe
  \/ SubscribeOther
  \/ Unsubscribe
  \/ SendTo
  \/ ProcessorTick
  \/ Dispatch

\* The bus with a failing and a working subscriber.
HandlerNext ==
  \/ BusStart
  \/ SubscribeFailing
  \/ Subscribe
  \/ Unsubscribe
  \/ PublishPlain
  \/ ProcessorTick
  \/ Dispatch

\* ========================================================================
\* ServiceRegistry (service.rs)
\* ========================================================================
ServiceIds == {"svc1", "svc2"}

ServiceStatus ==
  {"Starting", "Healthy", "Degraded", "Unhealthy", "Stopping", "Down", "Unknown"}

\* ServiceRegistry::new: service_timeout, in seconds.
service_timeout == 90

\* The topic of the registry's events.
ServiceEventsTopic == <<"service.events">>

\* An Option is <<>> (None) or <<x>> (Some(x)).
\* Service::metadata(): what a service reports about itself. The two services
\* of the model differ in type, capabilities and tags; the status and the
\* last heartbeat are whatever the service reports.
Profile(id) ==
  IF id = "svc1"
  THEN [name |-> <<"a", "b">>, service_type |-> "Http",
        capabilities |-> <<"c1">>, tags |-> <<"prod">>,
        region |-> <<>>, priority |-> 1]
  ELSE [name |-> <<"b">>, service_type |-> "Grpc",
        capabilities |-> <<"c1", "c2">>, tags |-> <<>>,
        region |-> <<"eu">>, priority |-> 2]

Metadata(id, status, last_heartbeat) ==
  [id |-> id, name |-> Profile(id).name,
   service_type |-> Profile(id).service_type,
   capabilities |-> Profile(id).capabilities, tags |-> Profile(id).tags,
   region |-> Profile(id).region, priority |-> Profile(id).priority,
   status |-> status, last_heartbeat |-> last_heartbeat]

ReportedMetadata(statuses, t) ==
  {Metadata(id, st, t) : id \in ServiceIds, st \in statuses}

\* HashMap::insert / remove on a table kept as a function.
MapPut(f, k, v) == [x \in DOMAIN f \cup {k} |-> IF x = k THEN v ELSE f[x]]

MapRemove(f, k) == [x \in DOMAIN f \ {k} |-> f[x]]

\* Vec::retain(|x| x != id).
RECURSIVE retain(_, _)
retain(list, id) ==
  IF list = <<>> THEN <<>>
  ELSE IF Head(list) = id THEN retain(Tail(list), id)
       ELSE <<Head(list)>> \o retain(Tail(list), id)

\* One index entry: entry(key).or_insert_with(Vec::new).push(id), and
\* get_mut(key) ... retain.
IndexAdd(ix, key, id) ==
  IF key \in DOMAIN ix THEN [ix EXCEPT ![key] = Append(@, id)]
  ELSE MapPut(ix, key, <<id>>)

IndexRemove(ix, key, id) ==
  IF key \in DOMAIN ix THEN [ix EXCEPT ![key] = retain(@, id)] ELSE ix

RECURSIVE IndexEach(_, _, _, _, _)
IndexEach(ix, keys, i, id, add) ==
  IF i > Len(keys) THEN ix
  ELSE IndexEach(IF add THEN IndexAdd(ix, keys[i], id)
                 ELSE IndexRemove(ix, keys[i], id),
                 keys, i + 1, id, add)

\* update_indexes(metadata, add): the three indexes after it.
update_indexes(ix, metadata, add) ==
  [by_type |-> IndexEach(ix.by_type, <<metadata.service_type>>, 1,
                         metadata.id, add),
   by_capability |-> IndexEach(ix.by_capability, metadata.capabilities, 1,
                               metadata.id, add),
   by_tag |-> IndexEach(ix.by_tag, metadata.tags, 1, metadata.id, add)]

Indexes ==
  [by_type |-> services_by_type, by_capability |-> services_by_capability,
   by_tag |-> services_by_tag]

\* The bus as publish_event sees it.
Bus == [history |-> message_history, topics |-> topics, n |-> published]

\* publish_event(event): a message with a fresh id, the current time and no
\* ttl on service.events; an error of publish is logged and dropped.
publish_event(bus, event) ==
  LET p == publish_on(bus.history, bus.topics, dispatchLoops,
                      [id |-> Uuid(bus.n + 1), topic |-> ServiceEventsTopic,
                       ttl |-> 0, timestamp |-> <<0>>, payload |-> event],
                      bus.n + 1)
  IN [history |-> p.history, topics |-> p.topics, n |-> bus.n + 1]

RECURSIVE publish_events(_, _)
publish_events(bus, events) ==
  IF events = <<>> THEN bus
  ELSE publish_events(publish_event(bus, Head(events)), Tail(events))

ServiceRegistered(id, metadata) ==
  [event |-> "ServiceRegistered", service_id |-> id, metadata |-> metadata]

ServiceUnregistered(id, metadata) ==
  [event |-> "ServiceUnregistered", service_id |-> id, metadata |-> metadata]

ServiceHeartbeat(id, timestamp) ==
  [event |-> "ServiceHeartbeat", service_id |-> id, timestamp |-> timestamp]

ServiceStatusChanged(id, old_status, new_status) ==
  [event |-> "ServiceStatusChanged", service_id |-> id,
   old_status |-> old_status, new_status |-> new_status]

SvcInit ==
  /\ services = <<>>
  /\ services_by_type = <<>>
  /\ services_by_capability = <<>>
  /\ services_by_tag = <<>>
  /\ now = 0
  /\ lastSvc = [n |-> 0, op |-> "none"]

\* What a registry operation does to the bus, and what it leaves alone.
BusAfter(bus) ==
  /\ message_history' = bus.history
  /\ topics' = bus.topics
  /\ published' = bus.n
  /\ UNCHANGED <<running, processors, dispatchLoops, subscriptions, invoked,
                 lastBus, reqCall, rx>>
  /\ UNCHANGED notSvcBusVars

IndexesAfter(ix) ==
  /\ services_by_type' = ix.by_type
  /\ services_by_capability' = ix.by_capability
  /\ services_by_tag' = ix.by_tag

\* The duplicate check of register_service.
AlreadyRegistered_Never(table, id) == FALSE

AlreadyRegistered(table, id) == id \in DOMAIN table

\* The status heartbeat gives a service.
HeartbeatStatus_DownStaysDown(old_status) ==
  IF old_status = "Down" THEN "Down" ELSE "Healthy"

HeartbeatStatus(old_status) == "Healthy"

\* The test of the sweep: the heartbeat is older than the timeout.
IsStale_AtTimeout(metadata, t) == t - metadata.last_heartbeat >= service_timeout

IsStale(metadata, t) == t - metadata.last_heartbeat > service_timeout

\* register_service(service, config): an error for an id that is in the
\* table; otherwise the service is stored, the indexes are updated and the
\* event is published.
RegisterFrom(reported) ==
  \E metadata \in reported :
    /\ lastSvc.n < MaxCalls
    /\ IF AlreadyRegistered(services, metadata.id)
       THEN /\ lastSvc' = [n |-> lastSvc.n + 1, op |-> "register",
                           id |-> metadata.id, result |-> "err_already_registered"]
            /\ UNCHANGED <<services, services_by_type, services_by_capability,
                           services_by_tag>>
            /\ UNCHANGED notSvcVars
       ELSE /\ services' = MapPut(services, metadata.id, metadata)
            /\ IndexesAfter(update_indexes(Indexes, metadata, TRUE))
            /\ BusAfter(publish_event(
                 Bus, ServiceRegistered(metadata.id, metadata)))
            /\ lastSvc' = [n |-> lastSvc.n + 1, op |-> "register",
                           id |-> metadata.id, result |-> "ok"]
    /\ UNCHANGED now

RegisterServiceOf(statuses) == RegisterFrom(ReportedMetadata(statuses, now))

\* A service that registers as Starting or as Down.
RegisterService == RegisterServiceOf({"Starting", "Down"})

\* unregister_service(id).
UnregisterService ==
  \E id \in ServiceIds :
    /\ lastSvc.n < MaxCalls
    /\ IF id \in DOMAIN services
       THEN /\ services' = MapRemove(services, id)
            /\ IndexesAfter(update_indexes(Indexes, services[id], FALSE))
            /\ BusAfter(publish_event(Bus, ServiceUnregistered(id, services[id])))
            /\ lastSvc' = [n |-> lastSvc.n + 1, op |-> "unregister",
                           id |-> id, result |-> "ok"]
       ELSE /\ lastSvc' = [n |-> lastSvc.n + 1, op |-> "unregister",
                           id |-> id, result |-> "err_not_found"]
            /\ UNCHANGED <<services, services_by_type, services_by_capability,
                           services_by_tag>>
            /\ UNCHANGED notSvcVars
    /\ UNCHANGED now

\* heartbeat that returns the error of a failed publish and keeps the table
\* as it was.
Heartbeat_NeedsReceivers ==
  \E id \in ServiceIds :
    /\ lastSvc.n < MaxCalls
    /\ IF id \in DOMAIN services
          /\ receiver_count(dispatchLoops, ServiceEventsTopic) > 0
       THEN /\ services' = [services EXCEPT ![id].last_heartbeat = now,
                                            ![id].status = HeartbeatStatus(@)]
            /\ BusAfter(publish_event(Bus, ServiceHeartbeat(id, now)))
            /\ lastSvc' = [n |-> lastSvc.n + 1, op |-> "heartbeat",
                           id |-> id, result |-> "ok"]
       ELSE /\ lastSvc' = [n |-> lastSvc.n + 1, op |-> "heartbeat",
                           id |-> id,
                           result |-> IF id \in DOMAIN services
                                      THEN "err_send" ELSE "err_not_found"]
            /\ UNCHANGED services
            /\ UNCHANGED notSvcVars
    /\ UNCHANGED <<services_by_type, services_by_capability, services_by_tag,
                   now>>

\* heartbeat(id).
Heartbeat ==
  \E id \in ServiceIds :
    /\ lastSvc.n < MaxCalls
    /\ IF id \in DOMAIN services
       THEN /\ services' = [services EXCEPT ![id].last_heartbeat = now,
                                            ![id].status = HeartbeatStatus(@)]
            /\ BusAfter(publish_event(Bus, ServiceHeartbeat(id, now)))
            /\ lastSvc' = [n |-> lastSvc.n + 1, op |-> "heartbeat",
                           id |-> id, result |-> "ok"]
       ELSE /\ lastSvc' = [n |-> lastSvc.n + 1, op |-> "heartbeat",
                           id |-> id, result |-> "err_not_found"]
            /\ UNCHANGED services
            /\ UNCHANGED notSvcVars
    /\ UNCHANGED <<services_by_type, services_by_capability, services_by_tag,
                   now>>

\* update_service_status that refuses to leave Down.
UpdateStatus_DownIsFinal(ids, statuses) ==
  \E id \in ids, status \in statuses :
    /\ lastSvc.n < MaxCalls
    /\ IF id \in DOMAIN services /\ services[id].status # "Down"
       THEN /\ services' = [services EXCEPT ![id].status = status]
            /\ BusAfter(publish_event(
                 Bus, ServiceStatusChanged(id, services[id].status, status)))
            /\ lastSvc' = [n |-> lastSvc.n + 1, op |-> "update_status",
                           id |-> id, status |-> status, result |-> "ok"]
       ELSE /\ lastSvc' = [n |-> lastSvc.n + 1, op |-> "update_status",
                           id |-> id, status |-> status,
                           result |-> "err_not_found"]
            /\ UNCHANGED services
            /\ UNCHANGED notSvcVars
    /\ UNCHANGED <<services_by_type, services_by_capability, services_by_tag,
                   now>>

\* update_service_status(id, status).
UpdateStatus(ids, statuses) ==
  \E id \in ids, status \in statuses :
    /\ lastSvc.n < MaxCalls
    /\ IF id \in DOMAIN services
       THEN /\ services' = [services EXCEPT ![id].status = status]
            /\ BusAfter(publish_event(
                 Bus, ServiceStatusChanged(id, services[id].status, status)))
            /\ lastSvc' = [n |-> lastSvc.n + 1, op |-> "update_status",
                           id |-> id, status |-> status, result |-> "ok"]
       ELSE /\ lastSvc' = [n |-> lastSvc.n + 1, op |-> "update_status",
                           id |-> id, status |-> status,
                           result |-> "err_not_found"]
            /\ UNCHANGED services
            /\ UNCHANGED notSvcVars
    /\ UNCHANGED <<services_by_type, services_by_capability, services_by_tag,
                   now>>

UpdateServiceStatusOf(ids) == UpdateStatus(ids, ServiceStatus)

UpdateServiceStatus == UpdateServiceStatusOf(ServiceIds)

\* An operator who degrades the first service or takes it down.
DegradeFirstService == UpdateStatus({"svc1"}, {"Degraded", "Down"})

\* An operator who sets the status of the first service only.
UpdateFirstService == UpdateServiceStatusOf({"svc1"})

\* The services the sweep acts on: stale, and not Down.
Expired(table, t) ==
  {id \in DOMAIN table : IsStale(table[id], t) /\ table[id].status # "Down"}

\* The orders in which a HashMap may hand out the ids of a set.
Orders(ids) ==
  {o \in [1..Cardinality(ids) -> ids] : \A i, j \in DOMAIN o : i # j => o[i] # o[j]}

\* check_expired_services(): every stale service that is not Down becomes
\* Unhealthy, an event is published for it and its id is returned.
CheckExpiredServices ==
  \E expired_services \in Orders(Expired(services, now)) :
    /\ lastSvc.n < MaxCalls
    /\ services' =
         [id \in DOMAIN services |->
            IF id \in Expired(services, now)
            THEN [services[id] EXCEPT !.status = "Unhealthy"]
            ELSE services[id]]
    /\ BusAfter(publish_events(
         Bus, [i \in DOMAIN expired_services |->
                 ServiceStatusChanged(expired_services[i], "Healthy", "Unhealthy")]))
    /\ lastSvc' = [n |-> lastSvc.n + 1, op |-> "check_expired",
                   expired |-> expired_services, result |-> "ok"]
    /\ UNCHANGED <<services_by_type, services_by_capability, services_by_tag,
                   now>>

\* Time passes: the timeout, or a second more.
TickBy(steps) ==
  \E d \in steps :
    /\ now + d <= MaxNow
    /\ now' = now + d
    /\ UNCHANGED <<services, services_by_type, services_by_capability,
                   services_by_tag, lastSvc>>
    /\ UNCHANGED notSvcVars

Tick == TickBy({service_timeout, service_timeout + 1})

\* ------------------------------------------------------------------------
\* register_service, one lock at a time
\* ------------------------------------------------------------------------
\* register_service takes services.read() for the duplicate check, drops it,
\* takes services.write() for the insert, drops it, then updates the indexes
\* and publishes the event: other calls run between these steps.
\* unregister_service keeps services.write() from its lookup to its return.
Callers == {"p1", "p2"}

\* First step: the duplicate check. A call that finds the id returns the
\* error; the others go on.
RegisterCheck ==
  \E caller \in Callers \ DOMAIN registering,
     metadata \in ReportedMetadata({"Starting"}, now) :
    /\ lastSvc.n + Cardinality(DOMAIN registering) < MaxCalls
    /\ IF AlreadyRegistered(services, metadata.id)
       THEN /\ lastSvc' = [n |-> lastSvc.n + 1, op |-> "register",
                           id |-> metadata.id, caller |-> caller,
                           result |-> "err_already_registered"]
            /\ UNCHANGED registering
       ELSE /\ registering' =
                 MapPut(registering, caller,
                        [metadata |-> metadata, pc |-> "checked"])
            /\ UNCHANGED lastSvc
    /\ UNCHANGED <<services, services_by_type, services_by_capability,
                   services_by_tag, now>>
    /\ UNCHANGED <<resVars, matchVars, busVars, discVars, plugVars, kernVars,
                   requesting>>

\* Second step: services.write().insert(id, instance).
RegisterStore ==
  \E caller \in DOMAIN registering :
    /\ registering[caller].pc = "checked"
    /\ services' = MapPut(services, registering[caller].metadata.id,
                          registering[caller].metadata)
    /\ registering' = [registering EXCEPT ![caller].pc = "stored"]
    /\ UNCHANGED <<services_by_type, services_by_capability, services_by_tag,
                   now, lastSvc>>
    /\ UNCHANGED <<resVars, matchVars, busVars, discVars, plugVars, kernVars,
                   requesting>>

\* Third step: update_indexes(metadata, true).
RegisterIndex ==
  \E caller \in DOMAIN registering :
    /\ registering[caller].pc = "stored"
    /\ IndexesAfter(update_indexes(Indexes, registering[caller].metadata, TRUE))
    /\ registering' = [registering EXCEPT ![caller].pc = "indexed"]
    /\ UNCHANGED <<services, now, lastSvc>>
    /\ UNCHANGED <<resVars, matchVars, busVars, discVars, plugVars, kernVars,
                   requesting>>

\* Last step: the event is published and the call returns the id.
RegisterReturn ==
  \E caller \in DOMAIN registering :
    /\ registering[caller].pc = "indexed"
    /\ LET metadata == registering[caller].metadata
           bus == publish_event(Bus, ServiceRegistered(metadata.id, metadata))
       IN /\ message_history' = bus.history
          /\ topics' = bus.topics
          /\ published' = bus.n
          /\ lastSvc' = [n |-> lastSvc.n + 1, op |-> "register",
                         id |-> metadata.id, caller |-> caller,
                         result |-> "ok"]
    /\ registering' = MapRemove(registering, caller)
    /\ UNCHANGED <<running, processors, dispatchLoops, subscriptions, invoked,
                   lastBus, reqCall, rx>>
    /\ UNCHANGED <<services, services_by_type, services_by_capability,
                   services_by_tag, now>>
    /\ UNCHANGED <<resVars, matchVars, discVars, plugVars, kernVars, requesting>>

\* Two clients that register at the same time; nobody unregisters.
RaceNext ==
  \/ RegisterCheck
  \/ RegisterStore
  \/ RegisterIndex
  \/ RegisterReturn

\* Two clients that register and unregister at the same time.
IndexNext ==
  \/ RegisterCheck
  \/ RegisterStore
  \/ RegisterIndex
  \/ RegisterReturn
  \/ UnregisterService

\* ------------------------------------------------------------------------
\* request_resources, one lock at a time
\* ------------------------------------------------------------------------
\* The fair-share and the priority-based strategy call check_availability,
\* which takes usage.read() and drops it, and then allocate_resource, which
\* takes allocations.write() for the insert, drops it, and takes
\* usage.write() in update_usage; a refused request is pushed under
\* allocation_queue.write(). Other calls run between these steps.
ConcurrentRequests ==
  [requester : Requesters, resource_type : {"Cpu", "Disk"},
   amount : {1, get_total_capacity("Cpu")}, priority : {"Low"},
   timeout : Timeouts]

\* First step: validation and the strategy's availability check.
RequestCheck ==
  \E caller \in Callers \ DOMAIN requesting, req \in ConcurrentRequests :
    /\ Len(allocation_queue) + Cardinality(DOMAIN requesting) < MaxQueue
    /\ nextAllocId + Cardinality(DOMAIN requesting) <= MaxAllocs
    /\ "usage" \notin locks
    /\ IF validate_request(req) # "ok"
       THEN /\ lastRes' = [op |-> "request", req |-> req,
                           result |-> "invalid", id |-> 0]
            /\ UNCHANGED requesting
       ELSE /\ requesting' =
                 MapPut(requesting, caller,
                        [req |-> req, id |-> 0,
                         pc |-> IF check_availability(usage, req.resource_type,
                                                      req.amount)
                                THEN "admitted" ELSE "refused"])
            /\ UNCHANGED lastRes
    /\ UNCHANGED <<allocations, usage, allocation_queue, locks, nextAllocId>>
    /\ UNCHANGED <<matchVars, busVars, svcVars, discVars, plugVars, kernVars,
                   registering>>

\* The next step of a call that has passed validation: the push of a refused
\* request and the return of the error; or the insert of allocate_resource;
\* or its update_usage and the return of the id.
RequestProceed ==
  \E caller \in DOMAIN requesting :
    LET call == requesting[caller]
        req == call.req
    IN /\ IF call.pc = "refused"
          THEN /\ "allocation_queue" \notin locks
               /\ allocation_queue' = Enqueue(allocation_queue, req)
               /\ lastRes' = [op |-> "request", req |-> req,
                              result |-> "queued", id |-> 0]
               /\ requesting' = MapRemove(requesting, caller)
               /\ UNCHANGED <<allocations, usage, nextAllocId>>
          ELSE IF call.pc = "admitted"
          THEN /\ "allocations" \notin locks
               /\ allocations' =
                    allocations \cup
                      {[id |-> nextAllocId, owner |-> req.requester,
                        resource_type |-> req.resource_type,
                        amount |-> req.amount,
                        expires |-> expires_at(req.timeout, now)]}
               /\ nextAllocId' = nextAllocId + 1
               /\ requesting' = [requesting EXCEPT ![caller].pc = "inserted",
                                                   ![caller].id = nextAllocId]
               /\ UNCHANGED <<usage, allocation_queue, lastRes>>
          ELSE /\ "usage" \notin locks
               /\ usage' = update_usage(usage, req.resource_type, req.amount)
               /\ lastRes' = [op |-> "request", req |-> req,
                              result |-> "ok", id |-> call.id]
               /\ requesting' = MapRemove(requesting, caller)
               /\ UNCHANGED <<allocations, allocation_queue, nextAllocId>>
       /\ UNCHANGED locks
       /\ UNCHANGED <<matchVars, busVars, svcVars, discVars, plugVars,
                      kernVars, registering>>

\* Two clients that request at the same time, and releases.
ConcurrentNext == RequestCheck \/ RequestProceed \/ ReleaseResources

\* ------------------------------------------------------------------------
\* discover_services
\* ------------------------------------------------------------------------
\* str::contains(name): name occurs in s as a substring.
contains_str(s, name) == find(s, name) >= 0

\* tags.iter().all(|tag| metadata.tags.contains(tag)).
tags_match_Any(tags, wanted) ==
  wanted = <<>> \/ \E i \in DOMAIN wanted : \E j \in DOMAIN tags : tags[j] = wanted[i]

tags_match(tags, wanted) ==
  \A i \in DOMAIN wanted : \E j \in DOMAIN tags : tags[j] = wanted[i]

\* matches_query(metadata, query): every filter that is set must hold.
matches_query(metadata, query) ==
  /\ query.name # <<>> => contains_str(metadata.name, query.name[1])
  /\ query.service_type # <<>> => metadata.service_type = query.service_type[1]
  /\ query.capability # <<>> =>
       \E i \in DOMAIN metadata.capabilities :
         metadata.capabilities[i] = query.capability[1]
  /\ query.tags # <<>> => tags_match(metadata.tags, query.tags[1])
  /\ query.region # <<>> => metadata.region = query.region
  /\ query.status # <<>> => metadata.status = query.status[1]
  /\ query.min_priority # <<>> => ~(metadata.priority < query.min_priority[1])

\* results.sort_by(|a, b| b.priority.cmp(&a.priority)): a stable sort, higher
\* priorities first.
RECURSIVE InsertByPriority(_, _)
InsertByPriority(sorted, x) ==
  IF sorted = <<>> THEN <<x>>
  ELSE IF Head(sorted).priority >= x.priority
       THEN <<Head(sorted)>> \o InsertByPriority(Tail(sorted), x)
       ELSE <<x>> \o sorted

RECURSIVE sort_by_priority(_)
sort_by_priority(list) ==
  IF list = <<>> THEN <<>>
  ELSE InsertByPriority(sort_by_priority(SubSeq(list, 1, Len(list) - 1)),
                        list[Len(list)])

\* Vec::truncate(limit).
truncate(list, limit) ==
  IF limit < Len(list) THEN SubSeq(list, 1, limit) ELSE list

RECURSIVE Matching(_, _, _, _)
Matching(table, order, i, query) ==
  IF i > Len(order) THEN <<>>
  ELSE (IF matches_query(table[order[i]], query)
        THEN <<table[order[i]]>> ELSE <<>>)
       \o Matching(table, order, i + 1, query)

\* discover_services(query) on a table whose values() come in `order`.
discover_services(table, order, query) ==
  LET results == sort_by_priority(Matching(table, order, 1, query))
  IN IF query.limit # <<>> THEN truncate(results, query.limit[1]) ELSE results

\* The tables discover_services is tried on: three services that differ in
\* name, capabilities, region and status, with types, tags and priorities
\* drawn from small sets.
DiscoverIds == {"d1", "d2", "d3"}

TagLists == {<<>>, <<"prod">>, <<"prod", "dev">>}

Priorities == {1, 2}

DiscoverTables ==
  {[id \in DiscoverIds |->
      CASE id = "d1" ->
             [id |-> id, name |-> <<"a", "b">>, service_type |-> ty,
              capabilities |-> <<"c1">>, tags |-> t1, region |-> <<>>,
              priority |-> p1, status |-> "Healthy", last_heartbeat |-> 0]
        [] id = "d2" ->
             [id |-> id, name |-> <<"b", "a">>, service_type |-> "Grpc",
              capabilities |-> <<"c1", "c2">>, tags |-> t2, region |-> <<"eu">>,
              priority |-> p2, status |-> "Healthy", last_heartbeat |-> 0]
        [] OTHER ->
             [id |-> id, name |-> <<"b">>, service_type |-> "Http",
              capabilities |-> <<>>, tags |-> <<"prod">>, region |-> <<"us">>,
              priority |-> p3, status |-> "Down", last_heartbeat |-> 0]] :
     ty \in {"Http", "Grpc"}, t1 \in TagLists, t2 \in TagLists,
     p1 \in Priorities, p2 \in Priorities, p3 \in Priorities}

ServiceQuery ==
  [name : {<<>>, << <<"a", "b">> >>},
   service_type : {<<>>, <<"Http">>},
   capability : {<<>>, <<"c1">>},
   tags : {<<>>, << <<"prod">> >>, << <<"prod", "dev">> >>},
   region : {<<>>, <<"eu">>},
   status : {<<>>, <<"Healthy">>},
   min_priority : {<<>>, <<2>>},
   limit : {<<>>, <<1>>, <<2>>}]

DiscInit ==
  /\ dServices \in DiscoverTables
  /\ dQuery \in ServiceQuery
  /\ dResult = <<>>

DiscIdle ==
  /\ dServices = <<>>
  /\ dQuery = <<>>
  /\ dResult = <<>>

DiscoverServices ==
  \E order \in Orders(DOMAIN dServices) :
    /\ dResult = <<>>
    /\ dResult' = <<discover_services(dServices, order, dQuery)>>
    /\ UNCHANGED <<dServices, dQuery>>
    /\ UNCHANGED notDiscVars

DiscoverNext == DiscoverServices

\* The registry with services that register, send heartbeats and go stale.
RegistryNext ==
  \/ RegisterService
  \/ UnregisterService
  \/ Heartbeat
  \/ CheckExpiredServices
  \/ Tick

\* The registry with services whose status is set to every value.
StatusNext ==
  \/ Tick
  \/ RegisterService
  \/ Heartbeat
  \/ UpdateFirstService

\* ========================================================================
\* PluginManager (plugin.rs)
\* ========================================================================
PluginState ==
  {"Unloaded", "Loading", "Loaded", "Initializing", "Running", "Stopping",
   "Stopped", "Error"}

\* What a plugin callback (initialize, start, stop, cleanup) returns.
CallbackResults == {"ok", "err"}

\* The configured plugin directories, in order, and their files, in the
\* order read_dir lists them. A file has a stem and an extension; opens:
\* the library can be opened; symbol: it exports _plugin_create; id: the id
\* its instance reports. new() configures four directories; three are
\* enough for a failure before, in and after a directory that loads.
plugin_dirs == <<"dir0", "dir1", "dir2">>

File(dir, stem, ext, opens, symbol, id) ==
  [dir |-> dir, stem |-> stem, ext |-> ext, opens |-> opens,
   symbol |-> symbol, id |-> id]

read_dir(dir) ==
  CASE dir = "dir0" -> <<File(dir, "foo", "so", TRUE, TRUE, "foo")>>
    [] dir = "dir1" -> <<File(dir, "bad", "so", TRUE, TRUE, "bar"),
                         File(dir, "notes", "txt", FALSE, FALSE, "notes"),
                         File(dir, "foo", "dll", TRUE, TRUE, "foo")>>
    [] OTHER -> <<File(dir, "noopen", "so", FALSE, FALSE, "noopen"),
                  File(dir, "nosym", "dylib", TRUE, FALSE, "nosym"),
                  File(dir, "baz", "so", TRUE, TRUE, "baz")>>

PluginFiles ==
  UNION {{read_dir(plugin_dirs[d])[i] : i \in DOMAIN read_dir(plugin_dirs[d])} :
           d \in DOMAIN plugin_dirs}

\* What the file system says of a directory: it does not exist; it exists and
\* can be listed; it exists and read_dir fails (no permission, not a
\* directory).
DirStates == {"missing", "listable", "unlistable"}

\* The allocation and service ids the manager tracks for a plugin.
AllocationIds == {"alloc1", "alloc2"}

TrackedServiceIds == {"svc1"}

\* The record load_plugin stores.
LoadedPlugin(file) ==
  [file |-> file, state |-> "Loaded", allocated_resources |-> <<>>,
   registered_services |-> <<>>]

\* The check of the reported id against the file stem.
IdMatches_Unchecked(file) == TRUE

IdMatches(file) == file.id = file.stem

\* load_plugin(path): the result and the table after it.
load_plugin(table, file) ==
  IF file.stem \in DOMAIN table
  THEN [result |-> "err_already_loaded", table |-> table]
  ELSE IF ~file.opens
  THEN [result |-> "err_load_library", table |-> table]
  ELSE IF ~file.symbol
  THEN [result |-> "err_no_constructor", table |-> table]
  ELSE IF ~IdMatches(file)
  THEN [result |-> "err_id_mismatch", table |-> table]
  ELSE [result |-> "ok", table |-> MapPut(table, file.stem, LoadedPlugin(file))]

PlugInit ==
  /\ plugins = <<>>
  /\ lastPlug = [n |-> 0, op |-> "none"]

LoadPlugin ==
  \E file \in PluginFiles :
    /\ lastPlug.n < MaxCalls
    /\ LET l == load_plugin(plugins, file)
       IN /\ plugins' = l.table
          /\ lastPlug' = [n |-> lastPlug.n + 1, op |-> "load", file |-> file,
                          id |-> file.stem, result |-> l.result]
    /\ UNCHANGED notPlugVars

\* The state each transition requires.
StartableFrom_LoadedToo(state) == state \in {"Stopped", "Loaded"}

StartableFrom(state) == state = "Stopped"

\* The three transitions as functions of the plugin table: the table after
\* the call, the result and the callbacks invoked. The state is written
\* before the callback is awaited (initialize, stop) or once and for all
\* (start); a callback error leaves through `?`.
Refused(table, result) == [table |-> table, result |-> result, trace |-> <<>>]

Called(table, callback, outcome) ==
  [table |-> table, trace |-> << <<callback>> >>,
   result |-> IF outcome = "ok" THEN "ok" ELSE "err_callback"]

initialize_plugin(table, id, outcome) ==
  IF id \notin DOMAIN table THEN Refused(table, "err_not_found")
  ELSE IF table[id].state # "Loaded" THEN Refused(table, "err_state")
  ELSE Called([table EXCEPT ![id].state =
                 IF outcome = "ok" THEN "Stopped" ELSE "Initializing"],
              "initialize", outcome)

start_plugin(table, id, outcome) ==
  IF id \notin DOMAIN table THEN Refused(table, "err_not_found")
  ELSE IF ~StartableFrom(table[id].state) THEN Refused(table, "err_state")
  ELSE Called([table EXCEPT ![id].state = "Running"], "start", outcome)

stop_plugin(table, id, outcome) ==
  IF id \notin DOMAIN table THEN Refused(table, "err_not_found")
  ELSE IF table[id].state # "Running" THEN Refused(table, "err_state")
  ELSE Called([table EXCEPT ![id].state =
                 IF outcome = "ok" THEN "Stopped" ELSE "Stopping"],
              "stop", outcome)

\* A transition called by a client, the plugin's callback returning `outcome`.
Transition(op, r, id) ==
  /\ lastPlug.n < MaxCalls
  /\ plugins' = r.table
  /\ lastPlug' = [n |-> lastPlug.n + 1, op |-> op, id |-> id,
                  result |-> r.result, trace |-> r.trace]
  /\ UNCHANGED notPlugVars

\* initialize_plugin(id).
InitializePlugin ==
  \E id \in {f.stem : f \in PluginFiles}, outcome \in CallbackResults :
    Transition("initialize", initialize_plugin(plugins, id, outcome), id)

\* start_plugin(id).
StartPlugin ==
  \E id \in {f.stem : f \in PluginFiles}, outcome \in CallbackResults :
    Transition("start", start_plugin(plugins, id, outcome), id)

\* stop_plugin(id).
StopPlugin ==
  \E id \in {f.stem : f \in PluginFiles}, outcome \in CallbackResults :
    Transition("stop", stop_plugin(plugins, id, outcome), id)

\* The release loop of unload_plugin: release_resources is called for each
\* tracked id in turn; an error is logged and the loop goes on.
Releases(ids) == [i \in DOMAIN ids |-> <<"release", ids[i]>>]

\* unload_plugin(id): the steps it takes, in order, and its result. The
\* plugin is taken out of the table first; an error of stop or of cleanup
\* ends the call there.
unload_plugin(plugin, stop_outcome, cleanup_outcome) ==
  LET removed == << <<"remove">> >>
      stopped == IF plugin.state = "Running"
                 THEN removed \o << <<"stop">> >> ELSE removed
  IN IF plugin.state = "Running" /\ stop_outcome = "err"
     THEN [result |-> "err_callback", trace |-> stopped]
     ELSE IF cleanup_outcome = "err"
     THEN [result |-> "err_callback", trace |-> stopped \o << <<"cleanup">> >>]
     ELSE [result |-> "ok",
           trace |-> stopped \o << <<"cleanup">> >>
                     \o Releases(plugin.allocated_resources)]

UnloadPlugin ==
  \E id \in {f.stem : f \in PluginFiles},
     stop_outcome \in CallbackResults, cleanup_outcome \in CallbackResults :
    /\ lastPlug.n < MaxCalls
    /\ IF id \notin DOMAIN plugins
       THEN /\ lastPlug' = [n |-> lastPlug.n + 1, op |-> "unload",
                            id |-> id, result |-> "err_not_found", trace |-> <<>>]
            /\ UNCHANGED plugins
       ELSE LET u == unload_plugin(plugins[id], stop_outcome, cleanup_outcome)
            IN /\ plugins' = MapRemove(plugins, id)
               /\ lastPlug' = [n |-> lastPlug.n + 1, op |-> "unload",
                               id |-> id, result |-> u.result, trace |-> u.trace]
    /\ UNCHANGED notPlugVars

\* The file is a shared library by its extension.
IsLibrary(file) == file.ext \in {"so", "dll", "dylib"}

\* discover_plugins, the files of one directory from the i-th on: st holds
\* the table, the ids loaded and the files attempted so far.
RECURSIVE discover_files(_, _, _)
discover_files(st, entries, i) ==
  IF i > Len(entries) THEN st
  ELSE IF ~IsLibrary(entries[i]) THEN discover_files(st, entries, i + 1)
  ELSE LET l == load_plugin(st.table, entries[i])
       IN discover_files(
            [table |-> l.table,
             loaded |-> IF l.result = "ok"
                        THEN Append(st.loaded, entries[i].stem) ELSE st.loaded,
             attempted |-> Append(st.attempted, entries[i])],
            entries, i + 1)

\* discover_plugins, the directories from the d-th on: a directory that does
\* not exist is skipped; a failure of read_dir ends the call with an error.
RECURSIVE discover_dirs(_, _, _)
discover_dirs(st, fs, d) ==
  IF d > Len(plugin_dirs) THEN [st EXCEPT !.result = "ok"]
  ELSE IF fs[plugin_dirs[d]] = "missing" THEN discover_dirs(st, fs, d + 1)
  ELSE IF fs[plugin_dirs[d]] = "unlistable"
  THEN [st EXCEPT !.result = "err_read_dir"]
  ELSE LET after == discover_files([table |-> st.table, loaded |-> st.loaded,
                                    attempted |-> st.attempted],
                                   read_dir(plugin_dirs[d]), 1)
       IN discover_dirs([table |-> after.table, loaded |-> after.loaded,
                         attempted |-> after.attempted, result |-> st.result],
                        fs, d + 1)

discover_plugins(table, fs) ==
  discover_dirs([table |-> table, loaded |-> <<>>, attempted |-> <<>>,
                 result |-> "running"], fs, 1)

DiscoverPlugins ==
  \E fs \in [{plugin_dirs[d] : d \in DOMAIN plugin_dirs} -> DirStates] :
    /\ lastPlug.n < MaxCalls
    /\ LET r == discover_plugins(plugins, fs)
       IN /\ plugins' = r.table
          /\ lastPlug' = [n |-> lastPlug.n + 1, op |-> "discover", fs |-> fs,
                          result |-> r.result, loaded |-> r.loaded,
                          attempted |-> r.attempted]
    /\ UNCHANGED notPlugVars

\* The manager records an allocation id, or a service id, as held by a
\* loaded plugin.
TrackAllocation ==
  \E id \in DOMAIN plugins, a \in AllocationIds :
    /\ \A i \in DOMAIN plugins[id].allocated_resources :
         plugins[id].allocated_resources[i] # a
    /\ plugins' = [plugins EXCEPT ![id].allocated_resources = Append(@, a)]
    /\ UNCHANGED lastPlug
    /\ UNCHANGED notPlugVars

TrackService ==
  \E id \in DOMAIN plugins, sv \in TrackedServiceIds :
    /\ \A i \in DOMAIN plugins[id].registered_services :
         plugins[id].registered_services[i] # sv
    /\ plugins' = [plugins EXCEPT ![id].registered_services = Append(@, sv)]
    /\ UNCHANGED lastPlug
    /\ UNCHANGED notPlugVars

\* The plugin manager with plugins that are loaded, driven through their
\* lifecycle and unloaded.
PluginNext ==
  \/ LoadPlugin
  \/ InitializePlugin
  \/ StartPlugin
  \/ StopPlugin
  \/ UnloadPlugin

\* The same, with a manager that tracks what its plugins hold.
TrackedNext ==
  \/ LoadPlugin
  \/ StartPlugin
  \/ InitializePlugin
  \/ UnloadPlugin
  \/ TrackAllocation
  \/ TrackService

\* The plugin manager with discovery.
DiscoveryNext ==
  \/ DiscoverPlugins
  \/ LoadPlugin
  \/ UnloadPlugin

\* ========================================================================
\* Specifications
\* ========================================================================
\* A component that takes no step under another component's specification.
\* ========================================================================
\* Microkernel (kernel.rs)
\* ========================================================================
HealthStatus == {"Healthy", "Warning", "Unhealthy", "Critical", "Down"}

\* KernelConfig::default(): discovery at start and resource monitoring are on.
auto_discover_plugins == TRUE

enable_resource_monitoring == TRUE

\* The ids of the plugins a discovery can load.
PluginIds ==
  {f.stem : f \in {x \in PluginFiles : load_plugin(<<>>, x).result = "ok"}}

\* The plugin directories as start() may find them: none exists; one or two
\* hold libraries; one cannot be listed.
KernelFs ==
  {[dir0 |-> "missing", dir1 |-> "missing", dir2 |-> "missing"],
   [dir0 |-> "listable", dir1 |-> "missing", dir2 |-> "missing"],
   [dir0 |-> "listable", dir1 |-> "missing", dir2 |-> "listable"],
   [dir0 |-> "listable", dir1 |-> "unlistable", dir2 |-> "missing"]}

\* The loop of discover_and_load_plugins over the ids discover_plugins has
\* returned: initialize, then start; a failure is logged and the loop goes
\* on to the next id. inits and starts: what each plugin's callbacks return.
RECURSIVE StartEach(_, _, _, _, _)
StartEach(table, ids, i, inits, starts) ==
  IF i > Len(ids) THEN table
  ELSE LET a == initialize_plugin(table, ids[i], inits[ids[i]])
       IN IF a.result # "ok" THEN StartEach(a.table, ids, i + 1, inits, starts)
          ELSE StartEach(start_plugin(a.table, ids[i], starts[ids[i]]).table,
                         ids, i + 1, inits, starts)

discover_and_load_plugins(table, fs, inits, starts) ==
  LET d == discover_plugins(table, fs)
  IN IF d.result # "ok" THEN [result |-> "err_discovery", table |-> d.table]
     ELSE [result |-> "ok",
           table |-> StartEach(d.table, d.loaded, 1, inits, starts)]

\* start(): refuses a running kernel; starts the bus (an error of the bus is
\* returned); spawns the two monitor tasks; discovers, initializes and
\* starts the plugins (an error of the discovery is returned); sets the flag.
KernelStartOn(dirs, outcomes) ==
  \E fs \in dirs, inits \in outcomes, starts \in outcomes :
    /\ lastKernel.n < MaxKernelCalls
    /\ kernel_running \/ running \/ processors < MaxProcessors
    /\ IF kernel_running
       THEN /\ lastKernel' = [n |-> lastKernel.n + 1, op |-> "start",
                              result |-> "err_already_running"]
            /\ UNCHANGED <<kernel_running, sweepers, loggers, plugins,
                           running, processors>>
       ELSE IF start(running).result # "ok"
       THEN /\ lastKernel' = [n |-> lastKernel.n + 1, op |-> "start",
                              result |-> "err_bus"]
            /\ UNCHANGED <<kernel_running, sweepers, loggers, plugins,
                           running, processors>>
       ELSE LET d == IF auto_discover_plugins
                     THEN discover_and_load_plugins(plugins, fs, inits, starts)
                     ELSE [result |-> "ok", table |-> plugins]
            IN /\ running' = start(running).running
               /\ processors' = processors + 1
               /\ sweepers' = sweepers + 1
               /\ loggers' = IF enable_resource_monitoring
                             THEN loggers + 1 ELSE loggers
               /\ plugins' = d.table
               /\ kernel_running' = (d.result = "ok")
               /\ lastKernel' = [n |-> lastKernel.n + 1, op |-> "start",
                                 result |-> d.result]
    /\ UNCHANGED <<topics, dispatchLoops, subscriptions, message_history,
                   invoked, published, lastBus, reqCall, rx>>
    /\ UNCHANGED <<stopped_at, lastPlug>>
    /\ UNCHANGED <<resVars, matchVars, svcVars, discVars, regVars>>

KernelStart == KernelStartOn(KernelFs, [PluginIds -> CallbackResults])

\* start() where no plugin directory exists.
KernelStartBare ==
  KernelStartOn({[dir0 |-> "missing", dir1 |-> "missing", dir2 |-> "missing"]},
                {[id \in PluginIds |-> "ok"]})

\* stop_all_plugins: stop_plugin for every plugin list_plugins returns, in
\* the order of `ids`; an error is logged. stops: what each stop callback
\* returns. attempts: the ids stop_plugin was called for.
RECURSIVE StopEach(_, _, _, _)
StopEach(st, ids, i, stops) ==
  IF i > Len(ids) THEN st
  ELSE StopEach([table |-> stop_plugin(st.table, ids[i], stops[ids[i]]).table,
                 attempts |-> Append(st.attempts, ids[i])],
                ids, i + 1, stops)

\* stop_all_plugins that gives up at the first plugin it cannot stop.
RECURSIVE StopUntilError(_, _, _, _)
StopUntilError(st, ids, i, stops) ==
  IF i > Len(ids) THEN st
  ELSE LET r == stop_plugin(st.table, ids[i], stops[ids[i]])
           next == [table |-> r.table, attempts |-> Append(st.attempts, ids[i])]
       IN IF r.result # "ok" THEN next
          ELSE StopUntilError(next, ids, i + 1, stops)

stop_all_plugins_UntilError(table, ids, stops) ==
  StopUntilError([table |-> table, attempts |-> <<>>], ids, 1, stops)

stop_all_plugins(table, ids, stops) ==
  StopEach([table |-> table, attempts |-> <<>>], ids, 1, stops)

\* stop(): nothing to do on a kernel that is not running; otherwise stops
\* the plugins, the services (a placeholder) and the bus (an error of the
\* bus is returned), and clears the flag.
KernelStopWith(outcomes) ==
  \E ids \in Orders(DOMAIN plugins), stops \in outcomes :
    /\ lastKernel.n < MaxKernelCalls
    /\ IF ~kernel_running
       THEN /\ lastKernel' = [n |-> lastKernel.n + 1, op |-> "stop",
                              result |-> "ok", was |-> FALSE,
                              attempts |-> <<>>, stops |-> stops]
            /\ UNCHANGED <<kernel_running, plugins, running, stopped_at>>
       ELSE LET p == stop_all_plugins(plugins, ids, stops)
                b == stop(running)
            IN /\ plugins' = p.table
               /\ running' = b.running
               /\ kernel_running' = (b.result # "ok")
               /\ stopped_at' = IF b.result = "ok" THEN published
                                ELSE stopped_at
               /\ lastKernel' = [n |-> lastKernel.n + 1, op |-> "stop",
                                 was |-> TRUE, attempts |-> p.attempts,
                                 stops |-> stops,
                                 result |-> IF b.result = "ok" THEN "ok"
                                            ELSE "err_bus"]
    /\ UNCHANGED <<processors, topics, dispatchLoops, subscriptions,
                   message_history, invoked, published, lastBus, reqCall, rx>>
    /\ UNCHANGED <<sweepers, loggers, lastPlug>>
    /\ UNCHANGED <<resVars, matchVars, svcVars, discVars, regVars>>

KernelStop == KernelStopWith([PluginIds -> CallbackResults])

\* stop() of a kernel without plugins.
KernelStopBare == KernelStopWith({[id \in PluginIds |-> "ok"]})

\* usage_percentage > limit, for an entry of the usage map (0.0 when the
\* total is 0).
UsedOver(entry, limit) ==
  entry.total > 0 /\ entry.used * 100 > limit * entry.total

\* The overall status that ignores the warnings.
Overall_IgnoresWarning(components) ==
  IF \E c \in DOMAIN components : components[c] = "Critical"
  THEN "Critical" ELSE "Healthy"

\* The overall status of health(): Healthy when every component is,
\* Critical when one is, Warning otherwise.
Overall(components) ==
  IF \A c \in DOMAIN components : components[c] = "Healthy" THEN "Healthy"
  ELSE IF \E c \in DOMAIN components : components[c] = "Critical"
       THEN "Critical"
       ELSE "Warning"

\* health() as a function of what it reads.
health(is_running, u, table, loaded) ==
  IF ~is_running THEN [status |-> "Down", components |-> <<>>]
  ELSE LET components ==
             [message_bus |-> "Healthy",
              resource_manager |->
                IF \E t \in DOMAIN u : UsedOver(u[t], 95)
                THEN "Warning" ELSE "Healthy",
              service_registry |->
                IF DOMAIN table = {} THEN "Warning" ELSE "Healthy",
              plugin_manager |->
                IF DOMAIN loaded = {} THEN "Warning" ELSE "Healthy"]
       IN [status |-> Overall(components), components |-> components]

Health ==
  /\ lastKernel.n < MaxKernelCalls
  /\ lastKernel' = [n |-> lastKernel.n + 1, op |-> "health",
                    health |-> health(kernel_running, usage, services, plugins)]
  /\ UNCHANGED <<kernel_running, sweepers, loggers, stopped_at>>
  /\ UNCHANGED <<resVars, matchVars, busVars, svcVars, discVars, plugVars,
                 regVars>>

\* One tick of the task start_service_monitoring has spawned: it calls
\* check_expired_services and logs what it returns. The loop has no exit.
SweepTick ==
  /\ sweepers > 0
  /\ CheckExpiredServices

\* One tick of the task start_resource_monitoring has spawned: it reads the
\* usage figures and logs those over 80%. The loop has no exit.
LoggerTick ==
  /\ loggers > 0
  /\ UNCHANGED vars

\* A client that asks for the whole disk.
RequestFullDisk ==
  /\ Len(allocation_queue) < MaxQueue
  /\ nextAllocId <= MaxAllocs
  /\ request_resources([requester |-> "svcA", resource_type |-> "Disk",
                        amount |-> get_total_capacity("Disk"),
                        priority |-> "Low", timeout |-> <<>>])
  /\ UNCHANGED notResVars

\* A service that registers as Starting.
RegisterStarting == RegisterServiceOf({"Starting"})

\* The kernel with clients that register services and request resources,
\* and an operator who asks for its health.
HealthNext ==
  \/ KernelStart
  \/ KernelStop
  \/ Health
  \/ RegisterStarting
  \/ RequestFullDisk

\* The kernel started and stopped, and a client that stops the bus itself.
KernelNext ==
  \/ KernelStart
  \/ KernelStop
  \/ StopBus

\* The first service registers as Starting.
RegisterFirst == RegisterFrom({Metadata("svc1", "Starting", now)})

\* Time passes: a second more than the timeout.
TickPastTimeout == TickBy({service_timeout + 1})

PublishOnA ==
  PublishOf({EmptyId}, {<<"a">>}, {[ttl |-> 0, timestamp |-> MinUtc]})



\* Requests with and without a timeout, releases, and time passing, by more
\* than any request's timeout.
ExpiryNext ==
  RequestResources \/ RequestTimed \/ ReleaseResources \/ TickPastTimeout


\* The kernel with its background tasks, a service that registers and a
\* subscriber and a publisher on the bus.
LoopsNext ==
  \/ KernelStartBare
  \/ KernelStopBare
  \/ RegisterFirst
  \/ TickPastTimeout
  \/ SweepTick
  \/ LoggerTick
  \/ ProcessorTick
  \/ SubscribeService
  \/ PublishOnA
  \/ Dispatch

\* The registry with every operation that publishes an event, on a bus that
\* may or may not have been started and may or may not have a subscriber and
\* a dispatch loop on service.events.
EventsNext ==
  \/ RegisterFirst
  \/ UnregisterService
  \/ Heartbeat
  \/ DegradeFirstService
  \/ CheckExpiredServices
  \/ TickPastTimeout
  \/ BusStart
  \/ SubscribeService
  \/ ProcessorTick

\* Services that register as Starting and whose status is set to every
\* value, one after the other.
UpdateNext == RegisterStarting \/ UpdateServiceStatus

\* A subscriber who subscribes before anything is published, and a publisher
\* who publishes on the started bus.
SubscribeEarly == published = 0 /\ Subscribe

PublishRunning == running /\ Publish

\* The started bus with its processor task and its dispatch loops, a
\* subscriber and a publisher; the bus is never stopped.
LiveNext ==
  \/ BusStart
  \/ SubscribeEarly
  \/ PublishRunning
  \/ ProcessorTick
  \/ Dispatch

RegIdle == registering = <<>> /\ requesting = <<>>

KernelIdle ==
  /\ kernel_running = FALSE
  /\ sweepers = 0
  /\ loggers = 0
  /\ stopped_at = 0
  /\ lastKernel = [n |-> 0, op |-> "none"]

\* The components a specification does not exercise, as new() leaves them.
RestIdle == RegIdle /\ KernelIdle

MatchIdle ==
  /\ mPattern = <<>>
  /\ mTopic = <<>>
  /\ mResult = <<>>
  /\ mResultStatic = <<>>

ResourceInit == ResInit /\ MatchIdle /\ BusInit /\ SvcInit /\ DiscIdle /\ PlugInit /\ RestIdle

SpecResource == ResourceInit /\ [][ResNext]_vars

MatcherInit == MatchInit /\ ResInit /\ BusInit /\ SvcInit /\ DiscIdle /\ PlugInit /\ RestIdle

SpecMatch == MatcherInit /\ [][MatchNext]_vars

MessageBusInit == BusInit /\ ResInit /\ MatchIdle /\ SvcInit /\ DiscIdle /\ PlugInit /\ RestIdle

SpecBus == MessageBusInit /\ [][BusNext]_vars

SpecRequest == MessageBusInit /\ [][RequestNext]_vars

SpecHandlers == MessageBusInit /\ [][HandlerNext]_vars

SpecSendTo == MessageBusInit /\ [][SendToNext]_vars

SpecBusErrors == MessageBusInit /\ [][ErrorsNext]_vars

HistoryInit ==
  /\ \E n \in {0, max_history_size - 1} : AfterPublishes(n)
  /\ ResInit /\ MatchIdle /\ SvcInit /\ DiscIdle /\ PlugInit /\ RestIdle

SpecHistory == HistoryInit /\ [][HistoryNext]_vars

RegistryInit == SvcInit /\ BusInit /\ ResInit /\ MatchIdle /\ DiscIdle /\ PlugInit /\ RestIdle

SpecRegistry == RegistryInit /\ [][RegistryNext]_vars

SpecStatus == RegistryInit /\ [][StatusNext]_vars

SpecIndex == RegistryInit /\ [][IndexNext]_vars

DiscoverInit == DiscInit /\ SvcInit /\ BusInit /\ ResInit /\ MatchIdle /\ PlugInit /\ RestIdle

SpecDiscover == DiscoverInit /\ [][DiscoverNext]_vars

PluginInit ==
  PlugInit /\ ResInit /\ MatchIdle /\ BusInit /\ SvcInit /\ DiscIdle /\ RestIdle

SpecPlugin == PluginInit /\ [][PluginNext]_vars

\* Microkernel::new: every component as its own new() leaves it.
KernelInit ==
  KernelIdle /\ RegIdle /\ PlugInit /\ ResInit /\ MatchIdle /\ BusInit /\ SvcInit
    /\ DiscIdle

SpecHealth == KernelInit /\ [][HealthNext]_vars

SpecKernel == KernelInit /\ [][KernelNext]_vars

SpecLoops == KernelInit /\ [][LoopsNext]_vars

SpecEvents == RegistryInit /\ [][EventsNext]_vars

SpecUpdate == RegistryInit /\ [][UpdateNext]_vars

SpecRace == RegistryInit /\ [][RaceNext]_vars

\* The processor task wakes up every 100 ms and every dispatch loop is a task
\* of its own that the runtime keeps scheduling.
SpecLive ==
  /\ MessageBusInit
  /\ [][LiveNext]_vars
  /\ WF_vars(ProcessorTick)
  /\ WF_vars(Dispatch)

SpecConcurrent == ResourceInit /\ [][ConcurrentNext]_vars

SpecExpiry == ResourceInit /\ [][ExpiryNext]_vars

SpecTracked == PluginInit /\ [][TrackedNext]_vars

SpecDiscovery == PluginInit /\ [][DiscoveryNext]_vars

\* ========================================================================
\* Claims: resource manager (checked under SpecResource)
\* ========================================================================
\* The used figure of a type, 0 for a type that has no usage entry yet.
UsedOf(u, t) == IF t \in DOMAIN u THEN u[t].used ELSE 0

\* The amount of type t the live allocations of ledger a hold.
RECURSIVE SumAmounts(_)
SumAmounts(a) ==
  IF a = {} THEN 0
  ELSE LET x == CHOOSE y \in a : TRUE IN x.amount + SumAmounts(a \ {x})

HeldOf(a, t) == SumAmounts({x \in a : x.resource_type = t})

\* The step is a call of request_resources (lastRes' describes it).
IsRequestStep == lastRes'.op = "request"

ValidAmount(req) ==
  req.amount > 0 /\ req.amount <= get_total_capacity(req.resource_type)

\* C1: for the fair-share and priority-based types, a request with
\* 0 < amount <= total is admitted (returns an allocation id) if and only if
\* used + amount <= total at the time of the call, used being 0 for a type
\* that has had no allocation yet; the priority plays no part.
C1_AdmitIffFits ==
  [][(IsRequestStep
      /\ strategies(lastRes'.req.resource_type) \in {"FairShare", "PriorityBased"}
      /\ ValidAmount(lastRes'.req))
     => ((lastRes'.result = "ok")
          <=> (UsedOf(usage, lastRes'.req.resource_type) + lastRes'.req.amount
                 <= get_total_capacity(lastRes'.req.resource_type)))]_vars

C3_InvalidRejected ==
  [][(IsRequestStep /\ ~ValidAmount(lastRes'.req))
     => /\ lastRes'.result = "invalid"
        /\ allocation_queue' = allocation_queue
        /\ allocations' = allocations
        /\ usage' = usage]_vars

C3_Witness ==
  /\ lastRes.op = "request"
  /\ lastRes.result = "invalid"
  /\ lastRes.req.amount > get_total_capacity(lastRes.req.resource_type)
  /\ lastRes.req.resource_type = "Cpu"
  /\ Len(allocation_queue) > 0

\* C4: a request that passes validation and is refused by its strategy is
\* appended once at the tail of the pending queue and the call returns the
\* "queued" error; no allocation is created and usage is unchanged.
C4_RefusedIsQueued ==
  [][(IsRequestStep
      /\ ValidAmount(lastRes'.req)
      /\ strategies(lastRes'.req.resource_type) # None
      /\ lastRes'.result \notin {"ok", "hung"})
     => /\ lastRes'.result = "queued"
        /\ allocation_queue' = Append(allocation_queue, lastRes'.req)
        /\ allocations' = allocations
        /\ usage' = usage]_vars

C4_Witness ==
  /\ lastRes.op = "request"
  /\ lastRes.result = "queued"
  /\ Len(allocation_queue) = 2
  /\ allocation_queue[2] = lastRes.req
  /\ allocation_queue[1] # lastRes.req
  /\ allocations = {}

IsPublishStep == published' = published + 1 /\ lastBus'.seq = published'

\* A message whose age in whole seconds is over its ttl.
PastTtl(m) == m.ttl > 0 /\ num_seconds(m.age_ms) > m.ttl

\* C6: publish of a message whose ttl has not expired, on a topic no
\* subscription matches, returns success and appends exactly one entry to
\* the history, with or without a channel or a dispatch loop on the topic.
C6_PublishWithoutSubscribers ==
  [][(IsPublishStep
      /\ ~PastTtl(lastBus'.msg)
      /\ get_subscribers(subscriptions, lastBus'.msg.topic) = {})
     => /\ lastBus'.result = "ok"
        /\ message_history' = Append(message_history, lastBus'.msg)]_vars

\* C7: a message published with ttl > 0 and an age over the ttl is dropped:
\* publish returns success, the history and the channels are unchanged and no
\* handler is ever invoked with it; a message with ttl = 0 is recorded
\* whatever its age.
C7_ExpiredDropped ==
  [][/\ (IsPublishStep /\ PastTtl(lastBus'.msg))
          => /\ lastBus'.result = "ok"
             /\ message_history' = message_history
             /\ topics' = topics
     /\ (IsPublishStep /\ lastBus'.msg.ttl = 0)
          => message_history' = Append(message_history, lastBus'.msg)
     /\ \A k \in DOMAIN invoked' : ~PastTtl(k.msg)]_vars

\* An expired message is dropped on a topic that has a dispatch loop and a
\* matching subscription, after a message without ttl, as old, was delivered.
C7_Witness ==
  /\ lastBus.op = "publish"
  /\ PastTtl(lastBus.msg)
  /\ lastBus.result = "ok"
  /\ receiver_count(dispatchLoops, lastBus.msg.topic) > 0
  /\ matching_subs(subscriptions, lastBus.msg) # {}
  /\ Len(message_history) = 1
  /\ message_history[1].ttl = 0
  /\ message_history[1].age_ms = 6000
  /\ \E k \in DOMAIN invoked : k.msg = message_history[1]

\* C8: when request() has returned, on any path, the subscription table no
\* longer holds request_<request-id>, and a received response is returned as
\* success.
C8_RequestCleansUp ==
  reqCall.pc = "done"
    => /\ ~reqCall.leaked
       /\ reqCall.path = "response" => reqCall.result = "ok"

\* C9: a topic has at most one dispatch loop, and a published message
\* causes at most one invocation of a subscription's handler.
C9_OneLoopPerTopic ==
  /\ \A t \in DOMAIN topics : receiver_count(dispatchLoops, t) <= 1
  /\ \A k \in DOMAIN invoked : invoked[k] <= 1

\* ========================================================================
\* Claims: topic matching (checked under SpecMatch)
\* ========================================================================
\* The match the documentation describes: with the pattern split on '*' into
\* parts, the parts occur in the topic in order without overlap, the first
\* at the start of the topic and the last at its end (a pattern that starts
\* or ends with '*' has an empty first or last part). GlobFrom(parts, t, i,
\* pos): parts i.. fit into the topic from the 0-based offset pos.
RECURSIVE GlobFrom(_, _, _, _)
GlobFrom(parts, t, i, pos) ==
  IF i = Len(parts)
  THEN /\ Len(t) - Len(parts[i]) >= pos
       /\ OccursAt(t, parts[i], Len(t) - Len(parts[i]))
  ELSE \E q \in pos..Len(t) :
         /\ OccursAt(t, parts[i], q)
         /\ i = 1 => q = 0
         /\ GlobFrom(parts, t, i + 1, q + Len(parts[i]))

DocumentedMatch(pattern, topic) ==
  \/ pattern = topic
  \/ /\ contains(pattern, Star)
     /\ GlobFrom(split(pattern, Star), topic, 1, 0)

\* C10: topic_matches(pattern, topic) is true exactly when the pattern
\* equals the topic or the pattern has a '*' and its literal segments occur
\* in the topic in order, anchored at the start and at the end of the topic
\* where the pattern does not start or end with '*'.
C10_MatchesAsDocumented ==
  /\ mResult # <<>> => mResult[1] = DocumentedMatch(mPattern, mTopic)
  /\ mResultStatic # <<>> => mResultStatic[1] = DocumentedMatch(mPattern, mTopic)

\* ------------------------------------------------------------------------
\* Claims about handler errors
\* ------------------------------------------------------------------------
\* The step is one iteration of the dispatch loop k.
IsDispatchStep(k) ==
  /\ k.next <= Len(topics[k.topic])
  /\ dispatchLoops' =
       BagAdd(BagRemove(dispatchLoops, k), [k EXCEPT !.next = @ + 1])

CountOf(bag, k) == IF k \in DOMAIN bag THEN bag[k] ELSE 0

\* The invocations of subscription id with message m, whatever they returned.
InvocationsOf(inv, id, m) ==
  SumCounts(inv, {k \in DOMAIN inv : k.sub = id /\ k.msg = m})

FailedFor(inv, m) == \E k \in DOMAIN inv : k.msg = m /\ k.result = "err"

\* C11: when a dispatch loop hands a message to the matching subscriptions,
\* every one of them is invoked once more, also when one of the handlers
\* (now or for an earlier message) returns an error; the failing subscription
\* stays in the table; and the publish of a message whose handler failed has
\* returned success.
C11_HandlerErrorsIsolated ==
  [][\A k \in DOMAIN dispatchLoops :
       IsDispatchStep(k) =>
         LET m == topics[k.topic][k.next]
         IN /\ \A id \in matching_subs(subscriptions, m) :
                 InvocationsOf(invoked', id, m) = InvocationsOf(invoked, id, m) + 1
            /\ subscriptions' = subscriptions
            /\ (FailedFor(invoked', m) /\ lastBus.seq = m.seq)
                 => lastBus.result = "ok"]_vars

\* Two messages were handed to the failing subscriber, whose handler failed
\* both times, and the first one also reached the working subscriber.
C11_Witness ==
  /\ \E f \in FailingSubIds, u \in UserSubIds, k1, k2, k3 \in DOMAIN invoked :
       /\ k1.sub = f /\ k1.result = "err" /\ k1.msg.seq = 1
       /\ k2.sub = f /\ k2.result = "err" /\ k2.msg.seq = 2
       /\ k3.sub = u /\ k3.result = "ok" /\ k3.msg = k1.msg
  /\ lastBus.op = "publish" /\ lastBus.result = "ok"

\* ------------------------------------------------------------------------
\* Claims about the service registry
\* ------------------------------------------------------------------------
\* The step is a call of the registry operation op.
IsSvcCall(op) == lastSvc'.n = lastSvc.n + 1 /\ lastSvc'.op = op

IndexesUnchanged ==
  /\ services_by_type' = services_by_type
  /\ services_by_capability' = services_by_capability
  /\ services_by_tag' = services_by_tag

\* The events the step has added to the bus history.
NewEvents ==
  [i \in 1..(Len(message_history') - Len(message_history)) |->
     message_history'[Len(message_history) + i].payload]

HistoryExtended ==
  /\ Len(message_history') >= Len(message_history)
  /\ SubSeq(message_history', 1, Len(message_history)) = message_history

\* C12: register_service with an id that is in the service table returns the
\* 'already registered' error and changes neither the table entry of the id,
\* nor an index, nor the bus history.
C12_DuplicateRejected ==
  [][(IsSvcCall("register") /\ lastSvc'.id \in DOMAIN services) =>
       /\ lastSvc'.result = "err_already_registered"
       /\ services' = services
       /\ IndexesUnchanged
       /\ message_history' = message_history]_vars

\* A service that has become Healthy since it registered is registered again
\* (reporting Starting or Down): the call fails and the entry is still Healthy.
C12_Witness ==
  /\ lastSvc.op = "register"
  /\ lastSvc.result = "err_already_registered"
  /\ lastSvc.id \in DOMAIN services
  /\ services[lastSvc.id].status = "Healthy"
  /\ Len(message_history) = 2

\* C13: heartbeat(id) on a registered service makes it Healthy from any
\* status, sets last_heartbeat to the current time, changes nothing else in
\* the table and publishes exactly one ServiceHeartbeat event.
C13_HeartbeatMakesHealthy ==
  [][(IsSvcCall("heartbeat") /\ lastSvc'.id \in DOMAIN services) =>
       LET id == lastSvc'.id
       IN /\ lastSvc'.result = "ok"
          /\ services' = [services EXCEPT ![id].status = "Healthy",
                                          ![id].last_heartbeat = now]
          /\ IndexesUnchanged
          /\ HistoryExtended
          /\ NewEvents = <<ServiceHeartbeat(id, now)>>]_vars

\* A service that was set to Down some time ago sends a heartbeat while the
\* other service is registered too.
C13_Witness ==
  /\ lastSvc.op = "heartbeat" /\ lastSvc.result = "ok"
  /\ DOMAIN services = ServiceIds
  /\ Len(message_history) >= 2
  /\ LET before == message_history[Len(message_history) - 1].payload
     IN /\ before.event = "ServiceStatusChanged"
        /\ before.service_id = lastSvc.id
        /\ before.new_status = "Down"
  /\ services[lastSvc.id].status = "Healthy"
  /\ services[lastSvc.id].last_heartbeat = now
  /\ now > 0

\* C14: check_expired_services returns, each once, the ids of the services
\* whose heartbeat is more than service_timeout old and that are not Down;
\* it sets those to Unhealthy, publishes one status-change event for each of
\* them, and leaves every other service as it is.
C14_SweepMarksStale ==
  [][IsSvcCall("check_expired") =>
       LET stale == {id \in DOMAIN services :
                       /\ now - services[id].last_heartbeat > service_timeout
                       /\ services[id].status # "Down"}
           returned == lastSvc'.expired
       IN /\ {returned[i] : i \in DOMAIN returned} = stale
          /\ Len(returned) = Cardinality(stale)
          /\ DOMAIN services' = DOMAIN services
          /\ \A id \in DOMAIN services :
               services'[id] = IF id \in stale
                               THEN [services[id] EXCEPT !.status = "Unhealthy"]
                               ELSE services[id]
          /\ HistoryExtended
          /\ Len(NewEvents) = Len(returned)
          /\ \A i \in DOMAIN returned :
               /\ NewEvents[i].event = "ServiceStatusChanged"
               /\ NewEvents[i].service_id = returned[i]
               /\ NewEvents[i].new_status = "Unhealthy"]_vars

\* A service registered as Starting and made Healthy by one heartbeat has been
\* returned by two sweeps in a row, more than service_timeout after the
\* heartbeat; it is Unhealthy.
C14_Witness ==
  /\ lastSvc.op = "check_expired"
  /\ Len(lastSvc.expired) = 1
  /\ Len(message_history) = 4
  /\ LET id == lastSvc.expired[1]
     IN /\ message_history[1].payload = ServiceRegistered(id, Metadata(id, "Starting", 0))
        /\ message_history[2].payload.event = "ServiceHeartbeat"
        /\ message_history[3].payload.event = "ServiceStatusChanged"
        /\ message_history[4].payload.event = "ServiceStatusChanged"
        /\ message_history[3].payload.service_id = id
        /\ message_history[4].payload.service_id = id
        /\ services[id].status = "Unhealthy"

\* The services of the table that pass every filter the query sets, as the
\* documentation lists the filters.
PassesFilters(m, q) ==
  /\ q.name = <<>> \/
       \E i \in 0..(Len(m.name) - Len(q.name[1])) :
         SubSeq(m.name, i + 1, i + Len(q.name[1])) = q.name[1]
  /\ q.service_type = <<>> \/ q.service_type[1] = m.service_type
  /\ q.capability = <<>> \/
       q.capability[1] \in {m.capabilities[i] : i \in DOMAIN m.capabilities}
  /\ q.tags = <<>> \/
       {q.tags[1][i] : i \in DOMAIN q.tags[1]} \subseteq
         {m.tags[i] : i \in DOMAIN m.tags}
  /\ q.region = <<>> \/ (m.region # <<>> /\ m.region[1] = q.region[1])
  /\ q.status = <<>> \/ q.status[1] = m.status
  /\ q.min_priority = <<>> \/ m.priority >= q.min_priority[1]

\* C15: the result of discover_services holds only services that pass every
\* filter of the query, each at most once, by descending priority; it holds
\* all of them, or the `limit` ones of highest priority; a service that lacks
\* a requested tag or has another type is not in it.
C15_DiscoverFilters ==
  dResult # <<>> =>
    LET res == dResult[1]
        passing == {id \in DOMAIN dServices : PassesFilters(dServices[id], dQuery)}
        listed == {res[i].id : i \in DOMAIN res}
        size == Cardinality(passing)
    IN /\ \A i \in DOMAIN res : res[i] = dServices[res[i].id]
       /\ listed \subseteq passing
       /\ Cardinality(listed) = Len(res)
       /\ \A i, j \in DOMAIN res : i < j => res[i].priority >= res[j].priority
       /\ Len(res) = IF dQuery.limit # <<>> /\ dQuery.limit[1] < size
                     THEN dQuery.limit[1] ELSE size
       /\ \A id \in passing \ listed :
            \A i \in DOMAIN res : res[i].priority >= dServices[id].priority

\* The query {service_type: Http, tags: [prod]} on a table with an Http
\* service without the tag, a tagged service of another type and a tagged
\* Http service: only the last one is returned.
C15_Witness ==
  /\ dQuery = [name |-> <<>>, service_type |-> <<"Http">>, capability |-> <<>>,
               tags |-> << <<"prod">> >>, region |-> <<>>, status |-> <<>>,
               min_priority |-> <<>>, limit |-> <<>>]
  /\ dServices["d1"].service_type = "Http" /\ dServices["d1"].tags = <<>>
  /\ dServices["d2"].tags = <<"prod">>
  /\ dResult # <<>>
  /\ Len(dResult[1]) = 1
  /\ dResult[1][1].id = "d3"

\* ------------------------------------------------------------------------
\* Claims about the plugin manager
\* ------------------------------------------------------------------------
\* The step is a call of the plugin manager's operation op.
IsPlugCall(op) == lastPlug'.n = lastPlug.n + 1 /\ lastPlug'.op = op

\* The state from which a transition is allowed.
RequiredState(op) ==
  CASE op = "initialize" -> "Loaded"
    [] op = "start" -> "Stopped"
    [] OTHER -> "Running"

\* C16: initialize_plugin, start_plugin and stop_plugin invoke the plugin's
\* callback only from Loaded, Stopped and Running respectively; from any other
\* state the call returns a plugin error, invokes no callback and leaves the
\* plugin table as it is.
C16_TransitionsGuarded ==
  [][\A op \in {"initialize", "start", "stop"} :
       (IsPlugCall(op) /\ lastPlug'.id \in DOMAIN plugins) =>
         IF plugins[lastPlug'.id].state = RequiredState(op)
         THEN lastPlug'.trace = << <<op>> >>
         ELSE /\ lastPlug'.result = "err_state"
              /\ lastPlug'.trace = <<>>
              /\ plugins' = plugins]_vars

\* start_plugin on a plugin that was loaded and never initialized has failed,
\* and the plugin is still Loaded.
C16_Witness ==
  /\ lastPlug.op = "start"
  /\ lastPlug.result = "err_state"
  /\ lastPlug.id \in DOMAIN plugins
  /\ plugins[lastPlug.id].state = "Loaded"

\* C17: load_plugin fails and leaves the plugin table as it is when the file
\* stem is already a loaded plugin's id, and (with a load error) when the
\* instance reports another id than the stem; when it succeeds the plugin is
\* stored under the stem, in state Loaded.
C17_LoadRejects ==
  [][IsPlugCall("load") =>
       LET file == lastPlug'.file
       IN /\ file.stem \in DOMAIN plugins =>
               /\ lastPlug'.result = "err_already_loaded"
               /\ plugins' = plugins
          /\ (file.stem \notin DOMAIN plugins /\ file.id # file.stem) =>
               /\ lastPlug'.result \in
                    {"err_load_library", "err_no_constructor", "err_id_mismatch"}
               /\ plugins' = plugins
          /\ lastPlug'.result = "ok" =>
               /\ file.stem \notin DOMAIN plugins
               /\ DOMAIN plugins' = DOMAIN plugins \cup {file.stem}
               /\ plugins'[file.stem].state = "Loaded"
               /\ \A id \in DOMAIN plugins : plugins'[id] = plugins[id]]_vars

\* The file bad.so, whose instance reports the id bar, was refused for the
\* mismatch while another plugin was loaded.
C17_Witness ==
  /\ lastPlug.op = "load"
  /\ lastPlug.result = "err_id_mismatch"
  /\ lastPlug.file.id # lastPlug.file.stem
  /\ DOMAIN plugins = {"foo"}

\* C18: unload_plugin of a loaded plugin calls stop if and only if the plugin
\* is Running, then cleanup in every case, then releases the tracked
\* allocations, and removes the plugin from the table as its last step.
C18_UnloadOrder ==
  [][(IsPlugCall("unload") /\ lastPlug'.id \in DOMAIN plugins) =>
       LET plugin == plugins[lastPlug'.id]
       IN lastPlug'.trace =
            (IF plugin.state = "Running" THEN << <<"stop">> >> ELSE <<>>)
            \o << <<"cleanup">> >>
            \o [i \in DOMAIN plugin.allocated_resources |->
                  <<"release", plugin.allocated_resources[i]>>]
            \o << <<"remove">> >>]_vars

\* C19: whenever unload_plugin has removed a plugin from the table, with
\* whatever result, a release was attempted for every allocation id tracked
\* for the plugin and every service id tracked for it was unregistered.
C19_UnloadReleasesAll ==
  [][(IsPlugCall("unload") /\ lastPlug'.id \in DOMAIN plugins
        /\ lastPlug'.id \notin DOMAIN plugins') =>
       LET plugin == plugins[lastPlug'.id]
           steps == {lastPlug'.trace[i] : i \in DOMAIN lastPlug'.trace}
       IN /\ \A i \in DOMAIN plugin.allocated_resources :
               <<"release", plugin.allocated_resources[i]>> \in steps
          /\ \A i \in DOMAIN plugin.registered_services :
               <<"unregister", plugin.registered_services[i]>> \in steps]_vars

\* C20: discover_plugins attempts every shared-library file of every
\* configured directory that exists (here: of those whose files can be
\* listed), whatever happens to the other files and directories, and the
\* list it returns holds exactly the ids it has loaded.
C20_DiscoveryIsolatesFailures ==
  [][IsPlugCall("discover") =>
       LET fs == lastPlug'.fs
           libraries ==
             {f \in PluginFiles :
                fs[f.dir] = "listable" /\ f.ext \in {"so", "dll", "dylib"}}
           attempted == {lastPlug'.attempted[i] : i \in DOMAIN lastPlug'.attempted}
           returned == IF lastPlug'.result = "ok"
                       THEN {lastPlug'.loaded[i] : i \in DOMAIN lastPlug'.loaded}
                       ELSE {}
       IN /\ attempted = libraries
          /\ returned = DOMAIN plugins' \ DOMAIN plugins]_vars

\* C27: when the callback of initialize_plugin, start_plugin or stop_plugin
\* returns an error, the call returns that error and the plugin's recorded
\* state is Error afterwards.
C27_CallbackErrorGivesError ==
  [][\A op \in {"initialize", "start", "stop"} :
       (IsPlugCall(op) /\ lastPlug'.result = "err_callback") =>
         /\ lastPlug'.id \in DOMAIN plugins'
         /\ plugins'[lastPlug'.id].state = "Error"]_vars

\* C25: for the pool-based type a request that passed validation is admitted
\* if and only if used + amount <= total - floor(total / 10), used being 0
\* before any allocation.
C25_PoolAdmitsWithinReserve ==
  [][(IsRequestStep
      /\ strategies(lastRes'.req.resource_type) = "Pool"
      /\ ValidAmount(lastRes'.req))
     => LET t == lastRes'.req.resource_type
            total == get_total_capacity(t)
        IN (lastRes'.result = "ok")
             <=> (UsedOf(usage, t) + lastRes'.req.amount
                    <= total - (total \div 10))]_vars

Addressed(subs, m) ==
  {id \in matching_subs(subs, m) :
     m.recipients = <<>> \/ \E i \in DOMAIN m.recipients : m.recipients[i] = id}

\* C30: a message sent with a non-empty recipients list is handed only to
\* the subscriptions whose id is in the list; a message with an empty list
\* is handed to every matching subscription.
C30_OnlyRecipientsReceive ==
  [][\A k \in DOMAIN dispatchLoops :
       IsDispatchStep(k) =>
         LET m == topics[k.topic][k.next]
         IN \A id \in DOMAIN subscriptions :
              InvocationsOf(invoked', id, m) =
                InvocationsOf(invoked, id, m)
                  + (IF id \in Addressed(subscriptions, m) THEN 1 ELSE 0)]_vars

\* The step is a call of start or stop whose result the caller sees.
IsFlagCall(op) == lastBus'.op = op /\ lastBus' # lastBus

\* C24: start fails if and only if the bus is running and stop fails if and
\* only if it is not; a failed call leaves the running flag as it is and a
\* successful one flips it; and no publish or send_to returns an error.
C24_OnlyBusLevelErrors ==
  [][/\ IsFlagCall("start") =>
          /\ (lastBus'.result # "ok") <=> running
          /\ running' = (IF lastBus'.result = "ok" THEN ~running ELSE running)
     /\ IsFlagCall("stop") =>
          /\ (lastBus'.result # "ok") <=> ~running
          /\ running' = (IF lastBus'.result = "ok" THEN ~running ELSE running)
     /\ IsPublishStep => lastBus'.result = "ok"]_vars

\* The size of the history after n recorded messages.
HistorySize(n) == IF n < max_history_size THEN n ELSE max_history_size

\* C29: the history never holds more than max_history_size messages; it
\* consists of the most recently recorded ones, in the order they were
\* published; and get_history(limit) returns the min(limit, size) most
\* recent of them, newest first.
C29_HistoryIsRecentWindow ==
  /\ [](/\ Len(message_history) <= max_history_size
        /\ Len(message_history) = HistorySize(published)
        /\ \A i \in 1..Len(message_history) :
             message_history[i].seq = published - Len(message_history) + i)
  /\ [][(lastBus'.op = "get_history" /\ lastBus' # lastBus) =>
          LET r == lastBus'.result
              size == Len(message_history)
          IN /\ Len(r) = (IF lastBus'.limit < size THEN lastBus'.limit ELSE size)
             /\ \A i \in 1..Len(r) : r[i].seq = published - i + 1]_vars

\* More messages were recorded than the history holds, the history is full,
\* and get_history with a limit beyond its size has returned all of it.
C29_Witness ==
  /\ published > max_history_size
  /\ Len(message_history) = max_history_size
  /\ lastBus.op = "get_history"
  /\ lastBus.limit > max_history_size
  /\ Len(lastBus.result) = max_history_size
  /\ lastBus.result[1].seq = published

\* How often id occurs in the list an index keeps under key.
RECURSIVE Occurrences(_, _)
Occurrences(list, id) ==
  IF list = <<>> THEN 0
  ELSE (IF Head(list) = id THEN 1 ELSE 0) + Occurrences(Tail(list), id)

ListedUnder(ix, key, id) ==
  IF key \in DOMAIN ix THEN Occurrences(ix[key], id) ELSE 0

Has(list, x) == \E i \in DOMAIN list : list[i] = x

\* The keys the services of the model can be listed under.
TypeKeys == {Profile(id).service_type : id \in ServiceIds}

CapabilityKeys ==
  UNION {{Profile(id).capabilities[i] : i \in DOMAIN Profile(id).capabilities} :
           id \in ServiceIds}

TagKeys ==
  UNION {{Profile(id).tags[i] : i \in DOMAIN Profile(id).tags} : id \in ServiceIds}

Once(b) == IF b THEN 1 ELSE 0

\* C28: whenever no register_service call is in progress, an id is listed
\* under a type, a capability or a tag if and only if a service with that id
\* is registered and has that type, capability or tag, and it is listed
\* there once.
C28_IndexesAgreeWithTable ==
  registering = <<>> =>
    \A id \in ServiceIds :
      LET here == id \in DOMAIN services
      IN /\ \A key \in TypeKeys \cup DOMAIN services_by_type :
              ListedUnder(services_by_type, key, id)
                = Once(here /\ services[id].service_type = key)
         /\ \A key \in CapabilityKeys \cup DOMAIN services_by_capability :
              ListedUnder(services_by_capability, key, id)
                = Once(here /\ Has(services[id].capabilities, key))
         /\ \A key \in TagKeys \cup DOMAIN services_by_tag :
              ListedUnder(services_by_tag, key, id)
                = Once(here /\ Has(services[id].tags, key))

\* ------------------------------------------------------------------------
\* Claims about the kernel
\* ------------------------------------------------------------------------
IsKernelCall(op) == lastKernel'.n = lastKernel.n + 1 /\ lastKernel'.op = op

\* Critical over Warning over Healthy.
Rank(status) ==
  CASE status = "Critical" -> 2 [] status = "Warning" -> 1 [] OTHER -> 0

\* Some resource type has more than 95% of its capacity in live allocations.
HeavilyUsed ==
  \E t \in ResourceTypes :
    HeldOf(allocations, t) * 100 > 95 * get_total_capacity(t)

\* C21: health() reports Down with no components when the kernel is not
\* running; when it is running, the message bus is Healthy, the resource
\* manager is Warning iff a type is more than 95% used, the service registry
\* iff no service is registered, the plugin manager iff no plugin is loaded,
\* and the overall status is the worst of the four.
C21_HealthAggregates ==
  [][IsKernelCall("health") =>
       LET h == lastKernel'.health
           c == h.components
       IN IF ~kernel_running
          THEN h.status = "Down" /\ c = <<>>
          ELSE /\ DOMAIN c = {"message_bus", "resource_manager",
                              "service_registry", "plugin_manager"}
               /\ c.message_bus = "Healthy"
               /\ c.resource_manager =
                    (IF HeavilyUsed THEN "Warning" ELSE "Healthy")
               /\ c.service_registry =
                    (IF DOMAIN services = {} THEN "Warning" ELSE "Healthy")
               /\ c.plugin_manager =
                    (IF DOMAIN plugins = {} THEN "Warning" ELSE "Healthy")
               /\ \A x \in DOMAIN c : Rank(h.status) >= Rank(c[x])
               /\ \E x \in DOMAIN c : h.status = c[x]]_vars

\* health() on a running kernel with a plugin loaded, no service registered
\* and a request for the whole disk made has reported Warning overall.
C21_Witness ==
  /\ lastKernel.op = "health"
  /\ kernel_running
  /\ lastKernel.health.status = "Warning"
  /\ lastKernel.health.components.plugin_manager = "Healthy"
  /\ lastKernel.health.components.service_registry = "Warning"
  /\ lastRes.op = "request"

\* C22: when stop() on a running kernel returns success, stop_plugin was
\* called for every loaded plugin, every plugin that was Running and whose
\* stop callback succeeded is Stopped, and neither the bus nor the kernel is
\* running; stop() on a kernel that is not running returns success and
\* changes nothing.
C22_StopStopsEverything ==
  [][(IsKernelCall("stop") /\ lastKernel'.result = "ok") =>
       IF kernel_running
       THEN /\ {lastKernel'.attempts[i] : i \in DOMAIN lastKernel'.attempts}
                 = DOMAIN plugins
            /\ \A id \in DOMAIN plugins :
                 (plugins[id].state = "Running" /\ lastKernel'.stops[id] = "ok")
                   => plugins'[id].state = "Stopped"
            /\ ~running'
            /\ ~kernel_running'
       ELSE /\ plugins' = plugins
            /\ running' = running
            /\ kernel_running' = kernel_running
            /\ UNCHANGED <<resVars, svcVars, sweepers, loggers, processors,
                           topics, subscriptions, message_history>>]_vars

\* stop() has succeeded on a kernel with two plugins: the stop of one was
\* refused or failed, and the other, stopped after it, is Stopped.
C22_Witness ==
  /\ lastKernel.op = "stop" /\ lastKernel.result = "ok" /\ lastKernel.was
  /\ Len(lastKernel.attempts) = 2
  /\ plugins[lastKernel.attempts[1]].state # "Stopped"
  /\ plugins[lastKernel.attempts[2]].state = "Stopped"
  /\ ~running /\ ~kernel_running

\* stop() has returned and neither the kernel nor the bus is running.
Stopped == ~kernel_running /\ ~running /\ lastKernel.n > 0

\* C23: once stop has cleared the running flag, the expiry sweep changes no
\* service's status and its loop exits at its next tick, and no dispatch loop
\* invokes a handler for a message published after the stop.
C23_LoopsObeyRunningFlag ==
  [][/\ (Stopped /\ IsSvcCall("check_expired")) =>
          /\ services' = services
          /\ sweepers' < sweepers
     /\ \A k \in DOMAIN dispatchLoops :
          (Stopped /\ IsDispatchStep(k)
             /\ topics[k.topic][k.next].seq > stopped_at)
            => invoked' = invoked]_vars

\* ------------------------------------------------------------------------
\* Claims about the life of an allocation
\* ------------------------------------------------------------------------
\* The expiry of allocation a has passed at time t.
Expired_at(a, t) == a.expires # <<>> /\ a.expires[1] < t

IsReleaseStep == lastRes'.op = "release"

\* C33: release_resources with an id that is not in the ledger returns the
\* 'allocation not found' error and changes neither the ledger, nor the
\* usage figures, nor the pending queue.
C33_UnknownReleaseRejected ==
  [][(IsReleaseStep /\ ~\E a \in allocations : a.id = lastRes'.id)
     => /\ lastRes'.result = "not_found"
        /\ allocations' = allocations
        /\ usage' = usage
        /\ allocation_queue' = allocation_queue
        /\ nextAllocId' = nextAllocId]_vars

\* An id that was never issued has been released while two requests wait in
\* the queue: the call returned the error.
C33_Witness ==
  /\ lastRes.op = "release"
  /\ lastRes.result = "not_found"
  /\ lastRes.id = 2
  /\ Len(allocation_queue) = 2
  /\ allocations = {}

\* ------------------------------------------------------------------------
\* Claims about the status of a service and the registry's events
\* ------------------------------------------------------------------------
\* C32: update_service_status(id, s) on a registered service returns Ok and
\* sets the status of id to s, whatever s and the current status are; it
\* changes no other field, no other service and no index, and publishes one
\* ServiceStatusChanged event for id.
C32_AnyStatusSettable ==
  [][(IsSvcCall("update_status") /\ lastSvc'.id \in DOMAIN services) =>
       /\ lastSvc'.result = "ok"
       /\ services' = [services EXCEPT ![lastSvc'.id].status = lastSvc'.status]
       /\ IndexesUnchanged
       /\ HistoryExtended
       /\ Len(NewEvents) = 1
       /\ NewEvents[1].event = "ServiceStatusChanged"
       /\ NewEvents[1].service_id = lastSvc'.id
       /\ NewEvents[1].new_status = lastSvc'.status]_vars

\* The status of svc1 has been set to Down and then to Starting, which no
\* lifecycle order allows, while svc2 is still as it registered.
C32_Witness ==
  /\ lastSvc.op = "update_status" /\ lastSvc.result = "ok"
  /\ lastSvc.id = "svc1" /\ lastSvc.status = "Starting"
  /\ services["svc1"].status = "Starting"
  /\ "svc2" \in DOMAIN services /\ services["svc2"].status = "Starting"
  /\ \E i \in DOMAIN message_history :
       message_history[i].payload
         = ServiceStatusChanged("svc1", "Down", "Starting")

\* C37: every ServiceStatusChanged event that update_service_status or the
\* expiry sweep publishes carries as old_status the status the service had
\* before the call and as new_status the status it has after it.
C37_EventsCarryRealStatus ==
  [][(IsSvcCall("update_status") \/ IsSvcCall("check_expired")) =>
       \A i \in DOMAIN NewEvents :
         LET e == NewEvents[i]
         IN e.event = "ServiceStatusChanged"
            => /\ e.old_status = services[e.service_id].status
               /\ e.new_status = services'[e.service_id].status]_vars

\* The publish of an event fails in this state: service.events has no
\* dispatch loop attached, so the channel has no receiver.
PublishFails == receiver_count(dispatchLoops, ServiceEventsTopic) = 0

\* C38: register_service, unregister_service, heartbeat,
\* update_service_status and check_expired_services return Ok and apply their
\* change to the service table whether the publish of their event fails or
\* succeeds; the only errors they return are 'already registered' and 'not
\* found'.
C38_PublishFailureSwallowed ==
  [][/\ (IsSvcCall("register") /\ lastSvc'.id \notin DOMAIN services) =>
          /\ lastSvc'.result = "ok"
          /\ lastSvc'.id \in DOMAIN services'
     /\ (IsSvcCall("unregister") /\ lastSvc'.id \in DOMAIN services) =>
          /\ lastSvc'.result = "ok"
          /\ lastSvc'.id \notin DOMAIN services'
     /\ (IsSvcCall("heartbeat") /\ lastSvc'.id \in DOMAIN services) =>
          /\ lastSvc'.result = "ok"
          /\ services'[lastSvc'.id].status = "Healthy"
          /\ services'[lastSvc'.id].last_heartbeat = now
     /\ (IsSvcCall("update_status") /\ lastSvc'.id \in DOMAIN services) =>
          /\ lastSvc'.result = "ok"
          /\ services'[lastSvc'.id].status = lastSvc'.status
     /\ IsSvcCall("check_expired") =>
          /\ lastSvc'.result = "ok"
          /\ \A id \in Expired(services, now) :
               services'[id].status = "Unhealthy"
     /\ lastSvc'.n = lastSvc.n + 1 =>
          lastSvc'.result \in {"ok", "err_already_registered", "err_not_found"}]_vars

\* heartbeat has returned Ok and made svc1 Healthy on a bus that was never
\* started: the event is in the history but was sent to nobody.
C38_Witness ==
  /\ lastSvc.op = "heartbeat" /\ lastSvc.result = "ok"
  /\ ~running /\ PublishFails
  /\ services[lastSvc.id].status = "Healthy"
  /\ services[lastSvc.id].last_heartbeat = now /\ now > 0
  /\ message_history[Len(message_history)].payload.event = "ServiceHeartbeat"
  /\ \A i \in DOMAIN topics[ServiceEventsTopic] :
       topics[ServiceEventsTopic][i].payload.event # "ServiceHeartbeat"

\* ------------------------------------------------------------------------
\* Claims about concurrent calls
\* ------------------------------------------------------------------------
\* The successful register_service calls so far, as their events in the bus
\* history (every successful call publishes one ServiceRegistered event).
Registrations(id) ==
  {i \in DOMAIN message_history :
     /\ message_history[i].payload.event = "ServiceRegistered"
     /\ message_history[i].payload.service_id = id}

\* C36: of the register_service calls with one id, which nobody
\* unregisters, at most one succeeds, also when they run at the same time;
\* and once they have returned each index lists the id once under each of
\* its keys.
C36_OneRegistrationWins ==
  \A id \in ServiceIds :
    /\ Cardinality(Registrations(id)) <= 1
    /\ registering = <<>> =>
         /\ \A key \in DOMAIN services_by_type :
              ListedUnder(services_by_type, key, id) <= 1
         /\ \A key \in DOMAIN services_by_capability :
              ListedUnder(services_by_capability, key, id) <= 1
         /\ \A key \in DOMAIN services_by_tag :
              ListedUnder(services_by_tag, key, id) <= 1

\* ------------------------------------------------------------------------
\* Claims about a start that fails
\* ------------------------------------------------------------------------
\* C39: a start() of a stopped kernel that returns an error leaves the kernel
\* as it was: is_running() is false, this call has not left the bus running
\* and none of the tasks it has spawned stays; and whenever is_running() is
\* true the bus is running.
C39_FailedStartLeavesNothing ==
  [][/\ (IsKernelCall("start") /\ ~kernel_running /\ lastKernel'.result # "ok")
        => /\ ~kernel_running'
           /\ running' = running
           /\ processors' = processors
           /\ sweepers' = sweepers
           /\ loggers' = loggers
     /\ kernel_running' => running']_vars

\* ------------------------------------------------------------------------
\* Claims about delivery
\* ------------------------------------------------------------------------
\* The n-th published message is owed to subscription id: it was recorded
\* (its ttl had not expired), the bus is running, and the subscription
\* matches its topic, by name or by pattern, and its filter accepts it.
Owed(n, id) ==
  /\ running
  /\ id \in DOMAIN subscriptions
  /\ \E i \in DOMAIN message_history :
       /\ message_history[i].seq = n
       /\ id \in get_subscribers(subscriptions, message_history[i].topic)
       /\ FilterAccepts(subscriptions[id].filter, message_history[i])

\* The handler of subscription id has been invoked with the n-th message.
Handed(n, id) == \E k \in DOMAIN invoked : k.sub = id /\ k.msg.seq = n

\* C34: on a running bus, a message whose ttl has not expired and that a
\* live subscription matches is eventually handed to the handler of that
\* subscription, the first message on a topic and a message published right
\* after subscribe included.
C34_MatchedMessageDelivered ==
  \A n \in 1..MaxPublished : \A id \in UserSubIds :
    Owed(n, id) ~> Handed(n, id)

====
